---- MODULE Spec2Model ----
(***************************************************************************)
(* Therapy Simulator 1987 (src/therpaysim.py.py): the session state        *)
(* machine of TherapyApp.  The model keeps the game state (player, active  *)
(* client, combat pools), the part of the Tk interface that decides which  *)
(* handler can run (choice buttons or Continue button shown, modal grab,   *)
(* pending `after' callbacks) and one action per button handler or         *)
(* delayed callback.  Text rendering, the typewriter animation, the log    *)
(* and the read-only info dialogs are left out; message boxes are taken to *)
(* be dismissed at once.  Handlers run to completion, one at a time, as in *)
(* the Tk event loop.  Closing a window through the window manager is not  *)
(* an input of the model.                                                  *)
(***************************************************************************)
EXTENDS Integers, Sequences, FiniteSets, TLC

VARIABLES
    player,                \* self.player (NoPlayer before the first start_game)
    clients,               \* self.clients: the roster as built for the stage
    current_client_index,  \* self.current_client_index
    current_client,        \* self.current_client: the live instance (aliases clients[index])
    choice_in_progress,    \* self.choice_in_progress (getattr default False)
    choices_frame,         \* what self.choices_frame holds: nothing, a node's choice buttons, or the Continue button
    timers,                \* pending after() callbacks, in scheduling order
    debate,                \* the combat window: open, the pools player_hp and client_hp, the client named in its heading; entry is history (how it was opened)
    intro,                 \* the character-creation window is open
    grab,                  \* which window holds the modal grab: "none", "intro", "debate"
    quit,                  \* self.quit() / mainloop left
    ending,                \* name of the last ending shown by end_day ("" if none)
    type_speed,            \* self.type_speed: milliseconds per character, set with the speed slider
    inflight,              \* history: a submitted choice whose transition has not completed yet
    budget                 \* what is left of the bounds of the run: inputs of each kind still allowed

vars == <<player, clients, current_client_index, current_client, choice_in_progress,
          choices_frame, timers, debate, intro, grab, quit, ending, type_speed, inflight, budget>>

(***************************************************************************)
(* Bounds of the model (not program constants).  A run is given a budget   *)
(* of inputs of each kind; Init draws it from Budgets, a small family of   *)
(* play plans, so that the plans are explored side by side.                *)
(***************************************************************************)
\* a walk through the dialogue: choice submissions, combat clicks, item drops
MaxChoices == 3
MaxTurns == 1
MaxDrops == 1
\* play with the inventory: item uses in dialogue, choice submissions
MaxItemUses == 1
ItemChoices == 2
\* play with the "Debate Client" button: uses of the button, choice submissions
MaxDebates == 1
DebateChoices == 2
\* encounters opened with the button and fought on: combat clicks
FightTurns == 3
\* play again after an end of day, with the "Debate Client" button: restarts, choice submissions
MaxRestarts == 1
RestartChoices == 1
\* play with the speed slider and the inventory: moves of the slider, choice submissions, item uses
MaxSlides == 1
SlideChoices == 1
SlideItemUses == 1
\* a run from the middle of a game: choice submissions, item uses, uses of the button, combat clicks
MidChoices == 1
MidItemUses == 1
MidDebates == 1
MidTurns == 1
MidRestarts == 1
\* pending delayed callbacks
MaxPending == 2

(***************************************************************************)
(* Program constants.                                                      *)
(***************************************************************************)
STAT_MIN == 1
STAT_MAX == 15
ABSURDITY_CAP == 12
RESISTANCE_CAP == 10
SANITY_CAP == 20
SANITY_BONUS == 5
BASE_XP == 3
START_REPUTATION == 10
ITEM_RESTORE == 2
ADVANCE_DELAY == 1000
ITEM_DELAY == 2000
COMBAT_DELAY == 3000
ATTACK_DIE == 6
DEFEND_DIE == 4
CLIENT_DIE == 6
MIN_RENDER_DELAY == 300
RENDER_PAD == 200
TYPE_SPEED_DEFAULT == 6
SPEED_MIN == 2
SPEED_MAX == 20

None == "None"
NoEffects == <<>>
NoPlayer == [none |-> TRUE]
NoClient == [none |-> TRUE]

Max(a, b) == IF a >= b THEN a ELSE b
Min(a, b) == IF a <= b THEN a ELSE b

\* dict.get(key, default)
Get(d, key, default) == IF key \in DOMAIN d THEN d[key] ELSE default

StatNames == {"Patience", "Empathy", "Insight", "Composure"}

THERAPY_STAGES ==
  << [name |-> "Community Center", clients |-> <<"toaster", "mime">>, clients_needed |-> 2,
      stage_bonus |-> [reputation |-> 1],
      location_effects |-> [empathy_bonus |-> 1, difficulty_modifier |-> 0,
                            special_items |-> <<"Coffee">>]],
     [name |-> "Corporate Wellness Program", clients |-> <<"business", "choir">>, clients_needed |-> 2,
      stage_bonus |-> [xp |-> 2, reputation |-> 1],
      location_effects |-> [insight_bonus |-> 1, difficulty_modifier |-> 1,
                            special_items |-> <<"Energy Drink", "Notepad">>]],
     [name |-> "Crisis Intervention Center", clients |-> <<"cult", "influencer">>, clients_needed |-> 2,
      stage_bonus |-> [all_stats |-> 1, xp |-> 1],
      location_effects |-> [patience_bonus |-> 2, difficulty_modifier |-> 2,
                            special_items |-> <<"Meditation Guide", "Coffee">>]],
     [name |-> "Private Practice", clients |-> <<"conspiracy", "artist">>, clients_needed |-> 2,
      stage_bonus |-> [reputation |-> 3, xp |-> 3, all_stats |-> 1],
      location_effects |-> [all_bonus |-> 1, difficulty_modifier |-> 0,
                            special_items |-> <<"Coffee", "Notepad", "Energy Drink">>]],
     [name |-> "State Mental Hospital", clients |-> <<"parent">>, clients_needed |-> 1,
      stage_bonus |-> [all_stats |-> 2, xp |-> 5],
      location_effects |-> [composure_bonus |-> 2, difficulty_modifier |-> 3,
                            special_items |-> <<"Meditation Guide", "Energy Drink">>]] >>

CLASS_TEMPLATES ==
  [ Empath    |-> [Patience |-> 4, Empathy |-> 4, Insight |-> 8, Composure |-> 5],
    Counselor |-> [Patience |-> 5, Empathy |-> 8, Insight |-> 3, Composure |-> 6],
    Burnout   |-> [Patience |-> 8, Empathy |-> 4, Insight |-> 3, Composure |-> 4] ]

ClassNames == DOMAIN CLASS_TEMPLATES

ItemNames == {"Coffee", "Notepad", "Meditation Guide", "Energy Drink"}

ITEMS ==
  [ it \in ItemNames |->
      CASE it = "Coffee"           -> [uses |-> 2, stat |-> "Patience"]
        [] it = "Notepad"          -> [uses |-> 1, stat |-> "Empathy"]
        [] it = "Meditation Guide" -> [uses |-> 1, stat |-> "Insight"]
        [] it = "Energy Drink"     -> [uses |-> 1, stat |-> "Composure"] ]

toaster_nodes ==
  [ start |-> [textLen |-> 144, choices |-> <<
        [text |-> "Cool story", next |-> "explain",
         effects |-> NoEffects, reply |-> TRUE],
        [text |-> "What does it burn exactly", next |-> "paranoid",
         effects |-> NoEffects, reply |-> TRUE],
        [text |-> "Maybe buy a new toaster", next |-> "defensive",
         effects |-> [absurdity |-> 1], reply |-> TRUE],
        [text |-> "How does that make you feel", next |-> "hopeful",
         effects |-> [absurdity |-> -1], reply |-> TRUE] >>],
    explain |-> [textLen |-> 140, choices |-> <<
        [text |-> "Mm-hmm", next |-> "paranoid",
         effects |-> [absurdity |-> -1], reply |-> TRUE],
        [text |-> "And how did that feel", next |-> "deeper",
         effects |-> NoEffects, reply |-> TRUE],
        [text |-> "What else does it say", next |-> "escalate",
         effects |-> [absurdity |-> 1], reply |-> TRUE] >>],
    paranoid |-> [textLen |-> 123, choices |-> <<
        [text |-> "Sure", next |-> "deeper",
         effects |-> NoEffects, reply |-> TRUE],
        [text |-> "That sounds hard", next |-> "hopeful",
         effects |-> [absurdity |-> -1], reply |-> TRUE],
        [text |-> "Toasters don't think", next |-> "escalate",
         effects |-> [absurdity |-> 1], reply |-> TRUE] >>],
    defensive |-> [textLen |-> 151, choices |-> <<
        [text |-> "Right", next |-> "hopeful",
         effects |-> [absurdity |-> -1], reply |-> TRUE],
        [text |-> "What do they say", next |-> "deeper",
         effects |-> NoEffects, reply |-> TRUE] >>],
    deeper |-> [textLen |-> 155, choices |-> <<
        [text |-> "Interesting", next |-> None,
         effects |-> [absurdity |-> -1, breakthrough |-> TRUE], reply |-> TRUE],
        [text |-> "How do you feel about that", next |-> None,
         effects |-> NoEffects, reply |-> TRUE] >>],
    hopeful |-> [textLen |-> 133, choices |-> <<
        [text |-> "Not really", next |-> None,
         effects |-> [absurdity |-> -1, breakthrough |-> TRUE], reply |-> TRUE],
        [text |-> "Maybe try human contact", next |-> None,
         effects |-> NoEffects, reply |-> TRUE] >>],
    escalate |-> [textLen |-> 142, choices |-> <<
        [text |-> "Okay", next |-> "paranoid",
         effects |-> [absurdity |-> -1], reply |-> TRUE],
        [text |-> "That's concerning", next |-> None,
         effects |-> [start_debate |-> TRUE, heated_argument |-> TRUE], reply |-> FALSE] >>] ]

mime_nodes ==
  [ start |-> [textLen |-> 86, choices |-> <<
        [text |-> "Sure", next |-> "comfortable",
         effects |-> [absurdity |-> -1], reply |-> TRUE],
        [text |-> "Are you actually mute", next |-> "nervous",
         effects |-> NoEffects, reply |-> TRUE],
        [text |-> "This is stupid", next |-> "defensive",
         effects |-> [absurdity |-> 1], reply |-> TRUE],
        [text |-> "Cool let me try", next |-> "breakthrough",
         effects |-> [absurdity |-> -2], reply |-> TRUE] >>],
    comfortable |-> [textLen |-> 105, choices |-> <<
        [text |-> "Mm-hmm", next |-> "opening",
         effects |-> NoEffects, reply |-> TRUE],
        [text |-> "How do you feel", next |-> "anxious",
         effects |-> [absurdity |-> 1], reply |-> TRUE],
        [text |-> "What happened", next |-> "opening",
         effects |-> NoEffects, reply |-> TRUE] >>],
    breakthrough |-> [textLen |-> 118, choices |-> <<
        [text |-> "Right", next |-> None,
         effects |-> [absurdity |-> -2, breakthrough |-> TRUE], reply |-> TRUE],
        [text |-> "Try talking", next |-> None,
         effects |-> [absurdity |-> -1], reply |-> TRUE] >>],
    nervous |-> [textLen |-> 112, choices |-> <<
        [text |-> "That's rough", next |-> "opening",
         effects |-> [absurdity |-> -1], reply |-> TRUE],
        [text |-> "What triggers it", next |-> "anxious",
         effects |-> NoEffects, reply |-> TRUE] >>],
    defensive |-> [textLen |-> 97, choices |-> <<
        [text |-> "Whatever", next |-> "comfortable",
         effects |-> [absurdity |-> -1], reply |-> TRUE],
        [text |-> "Take your time", next |-> "comfortable",
         effects |-> NoEffects, reply |-> TRUE] >>],
    opening |-> [textLen |-> 117, choices |-> <<
        [text |-> "That's poetic", next |-> None,
         effects |-> [absurdity |-> -1, breakthrough |-> TRUE], reply |-> TRUE],
        [text |-> "Who gets you", next |-> None,
         effects |-> NoEffects, reply |-> TRUE] >>],
    anxious |-> [textLen |-> 118, choices |-> <<
        [text |-> "Try breathing exercises", next |-> None,
         effects |-> [absurdity |-> -1], reply |-> TRUE],
        [text |-> "Yeah people suck", next |-> None,
         effects |-> NoEffects, reply |-> TRUE] >>] ]

business_nodes ==
  [ start |-> [textLen |-> 165, choices |-> <<
        [text |-> "How does that make you feel", next |-> "nostalgia",
         effects |-> [absurdity |-> -1], reply |-> TRUE],
        [text |-> "Do you feel guilty", next |-> "defensive",
         effects |-> NoEffects, reply |-> TRUE],
        [text |-> "What about their families", next |-> "laugh",
         effects |-> [absurdity |-> -1], reply |-> TRUE] >>],
    nostalgia |-> [textLen |-> 156, choices |-> <<
        [text |-> "Uh huh", next |-> None,
         effects |-> [absurdity |-> -1], reply |-> TRUE],
        [text |-> "That's dark", next |-> None,
         effects |-> NoEffects, reply |-> TRUE] >>],
    defensive |-> [textLen |-> 117, choices |-> <<
        [text |-> "What about happiness", next |-> "confused",
         effects |-> NoEffects, reply |-> TRUE],
        [text |-> "Maybe try meditation", next |-> None,
         effects |-> [absurdity |-> -1], reply |-> TRUE] >>],
    laugh |-> [textLen |-> 139, choices |-> <<
        [text |-> "That's insane", next |-> None,
         effects |-> NoEffects, reply |-> TRUE],
        [text |-> "How's your son", next |-> None,
         effects |-> [absurdity |-> -1], reply |-> TRUE] >>],
    confused |-> [textLen |-> 179, choices |-> <<
        [text |-> "That feeling has a name", next |-> None,
         effects |-> [absurdity |-> -1, breakthrough |-> TRUE], reply |-> TRUE],
        [text |-> "Whatever", next |-> None,
         effects |-> NoEffects, reply |-> TRUE] >>] ]

cult_nodes ==
  [ start |-> [textLen |-> 135, choices |-> <<
        [text |-> "That's concerning", next |-> "haunted",
         effects |-> NoEffects, reply |-> TRUE],
        [text |-> "What's your life like now", next |-> "cats",
         effects |-> [absurdity |-> -1], reply |-> TRUE],
        [text |-> "Maybe try therapy", next |-> "grounded",
         effects |-> [absurdity |-> -1], reply |-> TRUE] >>],
    haunted |-> [textLen |-> 124, choices |-> <<
        [text |-> "How much do you owe", next |-> None,
         effects |-> [absurdity |-> -1], reply |-> TRUE],
        [text |-> "That's dark", next |-> None,
         effects |-> NoEffects, reply |-> TRUE] >>],
    cats |-> [textLen |-> 132, choices |-> <<
        [text |-> "What do they conclude", next |-> None,
         effects |-> [absurdity |-> -1, breakthrough |-> TRUE], reply |-> TRUE],
        [text |-> "Maybe get a dog", next |-> None,
         effects |-> NoEffects, reply |-> TRUE] >>],
    grounded |-> [textLen |-> 139, choices |-> <<
        [text |-> "That's one way to see it", next |-> None,
         effects |-> [absurdity |-> -1], reply |-> TRUE],
        [text |-> "You seem tired", next |-> None,
         effects |-> NoEffects, reply |-> TRUE] >>] ]

choir_nodes ==
  [ start |-> [textLen |-> 168, choices |-> <<
        [text |-> "Cool", next |-> "harmony",
         effects |-> [absurdity |-> -1], reply |-> TRUE],
        [text |-> "What do they sing about", next |-> "tiles",
         effects |-> NoEffects, reply |-> TRUE],
        [text |-> "Do you get paid extra", next |-> "stapler",
         effects |-> NoEffects, reply |-> TRUE] >>],
    harmony |-> [textLen |-> 135, choices |-> <<
        [text |-> "That sounds accurate", next |-> None,
         effects |-> [absurdity |-> -1], reply |-> TRUE],
        [text |-> "What's your favorite song", next |-> None,
         effects |-> NoEffects, reply |-> TRUE] >>],
    tiles |-> [textLen |-> 166, choices |-> <<
        [text |-> "What do they say", next |-> None,
         effects |-> NoEffects, reply |-> TRUE],
        [text |-> "Tiles don't write lyrics", next |-> None,
         effects |-> [absurdity |-> -1, breakthrough |-> TRUE], reply |-> TRUE] >>],
    stapler |-> [textLen |-> 163, choices |-> <<
        [text |-> "That's oddly touching", next |-> None,
         effects |-> [absurdity |-> -1], reply |-> TRUE],
        [text |-> "Do you have panic attacks often", next |-> None,
         effects |-> NoEffects, reply |-> TRUE] >>] ]

influencer_nodes ==
  [ start |-> [textLen |-> 163, choices |-> <<
        [text |-> "That's ambitious", next |-> "delusion",
         effects |-> NoEffects, reply |-> TRUE],
        [text |-> "How's that working out", next |-> "reality",
         effects |-> [absurdity |-> -1], reply |-> TRUE],
        [text |-> "Maybe focus on therapy first", next |-> "defensive",
         effects |-> [absurdity |-> -1], reply |-> TRUE] >>],
    delusion |-> [textLen |-> 163, choices |-> <<
        [text |-> "Interesting concept", next |-> None,
         effects |-> NoEffects, reply |-> TRUE],
        [text |-> "Would they agree to that", next |-> None,
         effects |-> [absurdity |-> -1], reply |-> TRUE] >>],
    reality |-> [textLen |-> 162, choices |-> <<
        [text |-> "Quality over quantity", next |-> None,
         effects |-> [absurdity |-> -1, breakthrough |-> TRUE], reply |-> TRUE],
        [text |-> "Maybe try a different approach", next |-> None,
         effects |-> NoEffects, reply |-> TRUE] >>],
    defensive |-> [textLen |-> 171, choices |-> <<
        [text |-> "I'm not judging", next |-> None,
         effects |-> [absurdity |-> -1], reply |-> TRUE],
        [text |-> "Social media isn't real connection", next |-> None,
         effects |-> NoEffects, reply |-> TRUE] >>] ]

conspiracy_nodes ==
  [ start |-> [textLen |-> 157, choices |-> <<
        [text |-> "That's... one theory", next |-> "deeper",
         effects |-> NoEffects, reply |-> TRUE],
        [text |-> "What makes you think that", next |-> "evidence",
         effects |-> [absurdity |-> -1], reply |-> TRUE],
        [text |-> "Maybe you're just stressed", next |-> "defensive",
         effects |-> [absurdity |-> -1], reply |-> TRUE] >>],
    deeper |-> [textLen |-> 164, choices |-> <<
        [text |-> "What did you research", next |-> None,
         effects |-> NoEffects, reply |-> TRUE],
        [text |-> "How did that make you feel", next |-> None,
         effects |-> [absurdity |-> -1], reply |-> TRUE] >>],
    evidence |-> [textLen |-> 170, choices |-> <<
        [text |-> "Show me the data", next |-> None,
         effects |-> [absurdity |-> -1, breakthrough |-> TRUE], reply |-> TRUE],
        [text |-> "Correlation isn't causation", next |-> None,
         effects |-> NoEffects, reply |-> TRUE] >>],
    defensive |-> [textLen |-> 157, choices |-> <<
        [text |-> "You're not crazy", next |-> None,
         effects |-> [absurdity |-> -1], reply |-> TRUE],
        [text |-> "That sounds exhausting", next |-> None,
         effects |-> NoEffects, reply |-> TRUE] >>] ]

artist_nodes ==
  [ start |-> [textLen |-> 179, choices |-> <<
        [text |-> "Have you considered other careers", next |-> "defensive",
         effects |-> [absurdity |-> -1], reply |-> TRUE] >>],
    defensive |-> [textLen |-> 160, choices |-> <<
        [text |-> "That's rough", next |-> None,
         effects |-> [absurdity |-> -1], reply |-> TRUE],
        [text |-> "Maybe redefine success", next |-> None,
         effects |-> NoEffects, reply |-> TRUE] >>] ]

parent_nodes ==
  [ start |-> [textLen |-> 175, choices |-> <<
        [text |-> "Parenting is hard", next |-> "worry",
         effects |-> [absurdity |-> -1], reply |-> TRUE],
        [text |-> "What's your biggest fear", next |-> "future",
         effects |-> NoEffects, reply |-> TRUE],
        [text |-> "Google isn't always helpful", next |-> "research",
         effects |-> [absurdity |-> -1], reply |-> TRUE] >>],
    worry |-> [textLen |-> 169, choices |-> <<
        [text |-> "Most kids turn out fine", next |-> None,
         effects |-> [absurdity |-> -1], reply |-> TRUE],
        [text |-> "Trust your instincts", next |-> None,
         effects |-> NoEffects, reply |-> TRUE] >>],
    future |-> [textLen |-> 172, choices |-> <<
        [text |-> "Everyone needs therapy", next |-> None,
         effects |-> [absurdity |-> -1, breakthrough |-> TRUE], reply |-> TRUE],
        [text |-> "You care and that matters", next |-> None,
         effects |-> NoEffects, reply |-> TRUE] >>],
    research |-> [textLen |-> 192, choices |-> <<
        [text |-> "That's impossible", next |-> None,
         effects |-> [absurdity |-> -1], reply |-> TRUE],
        [text |-> "Just do your best", next |-> None,
         effects |-> NoEffects, reply |-> TRUE] >>] ]

build_clients_data ==
  << [id |-> "toaster", nodes |-> toaster_nodes, absurdity |-> 6, resistance |-> 4],
     [id |-> "mime", nodes |-> mime_nodes, absurdity |-> 5, resistance |-> 5],
     [id |-> "business", nodes |-> business_nodes, absurdity |-> 6, resistance |-> 6],
     [id |-> "cult", nodes |-> cult_nodes, absurdity |-> 7, resistance |-> 5],
     [id |-> "choir", nodes |-> choir_nodes, absurdity |-> 8, resistance |-> 6],
     [id |-> "influencer", nodes |-> influencer_nodes, absurdity |-> 7, resistance |-> 5],
     [id |-> "conspiracy", nodes |-> conspiracy_nodes, absurdity |-> 6, resistance |-> 7],
     [id |-> "artist", nodes |-> artist_nodes, absurdity |-> 6, resistance |-> 5],
     [id |-> "parent", nodes |-> parent_nodes, absurdity |-> 5, resistance |-> 4] >>

ClientIds == {build_clients_data[k].id : k \in DOMAIN build_clients_data}

\* the catalog entry of a client id
Catalog(cid) == build_clients_data[CHOOSE k \in DOMAIN build_clients_data : build_clients_data[k].id = cid]

\* a reference to one choice dict of the catalog: client, node, 1-based position
ChoiceOf(ref) == Catalog(ref.cid).nodes[ref.node].choices[ref.idx]

(***************************************************************************)
(* Keyword classification of a choice label (on_choose).                   *)
(***************************************************************************)
UpperCase == "ABCDEFGHIJKLMNOPQRSTUVWXYZ"
LowerCase == "abcdefghijklmnopqrstuvwxyz"

LowerChar(c) ==
    IF \E k \in 1..Len(UpperCase) : SubSeq(UpperCase, k, k) = c
    THEN LET k == CHOOSE j \in 1..Len(UpperCase) : SubSeq(UpperCase, j, j) = c
         IN SubSeq(LowerCase, k, k)
    ELSE c

RECURSIVE lower(_)
lower(s) == IF Len(s) = 0 THEN s
            ELSE LowerChar(SubSeq(s, 1, 1)) \o lower(SubSeq(s, 2, Len(s)))

\* Python's `word in text'
Contains(text, word) ==
    \E k \in 1..(Len(text) - Len(word) + 1) : SubSeq(text, k, k + Len(word) - 1) = word

AnyWord(words, text) == \E w \in words : Contains(text, w)

EMPATHETIC_WORDS == {"listen", "validate", "understand", "care", "feel", "sorry", "support"}
ANALYTICAL_WORDS == {"ask", "explore", "why", "what", "how", "analyze", "think", "explain"}
CONFRONTATIONAL_WORDS == {"challenge", "wrong", "stupid", "ridiculous", "stop", "enough", "reality"}
PATIENT_WORDS == {"wait", "time", "patient", "slow", "breathe", "calm", "okay", "mm-hmm"}
DISMISSIVE_WORDS == {"whatever", "sure", "right", "cool story", "interesting"}
IMPATIENT_WORDS == {"ask", "explore", "challenge", "what", "why"}

\* variant: the analytical keywords are tested first
Category_analytical_first(choice_text) ==
    CASE AnyWord(ANALYTICAL_WORDS, choice_text)      -> "Analytical"
      [] OTHER ->
    CASE AnyWord(EMPATHETIC_WORDS, choice_text)      -> "Empathetic"
      [] OTHER ->
    CASE AnyWord(CONFRONTATIONAL_WORDS, choice_text) -> "Confrontational"
      [] OTHER ->
    CASE AnyWord(PATIENT_WORDS, choice_text)         -> "Patient"
      [] OTHER ->
    CASE AnyWord(DISMISSIVE_WORDS, choice_text)      -> "Dismissive"
      [] OTHER -> "None"

\* the if/elif chain of on_choose over the lowercased label
Category(choice_text) ==
    CASE AnyWord(EMPATHETIC_WORDS, choice_text)      -> "Empathetic"
      [] OTHER ->
    CASE AnyWord(ANALYTICAL_WORDS, choice_text)      -> "Analytical"
      [] OTHER ->
    CASE AnyWord(CONFRONTATIONAL_WORDS, choice_text) -> "Confrontational"
      [] OTHER ->
    CASE AnyWord(PATIENT_WORDS, choice_text)         -> "Patient"
      [] OTHER ->
    CASE AnyWord(DISMISSIVE_WORDS, choice_text)      -> "Dismissive"
      [] OTHER -> "None"

AllLabels ==
    UNION { UNION { {Catalog(c).nodes[n].choices[k].text : k \in DOMAIN Catalog(c).nodes[n].choices}
                    : n \in DOMAIN Catalog(c).nodes } : c \in ClientIds }

\* what on_choose derives from a label, tabulated once for the labels of the catalog
LabelInfo ==
    [ t \in AllLabels |->
        [category     |-> Category(lower(t)),
         overwhelming |-> Contains(lower(t), "overwhelming"),
         impatient    |-> AnyWord(IMPATIENT_WORDS, lower(t))] ]

(***************************************************************************)
(* The game state as one record, so that a handler and the handlers it     *)
(* calls are composed as functions on it.                                  *)
(***************************************************************************)
State ==
    [player |-> player, clients |-> clients, current_client_index |-> current_client_index,
     current_client |-> current_client, choice_in_progress |-> choice_in_progress,
     choices_frame |-> choices_frame, timers |-> timers, debate |-> debate, intro |-> intro,
     grab |-> grab, quit |-> quit, ending |-> ending, type_speed |-> type_speed,
     inflight |-> inflight, budget |-> budget]

\* the handler's result becomes the next state
Becomes(s) ==
    /\ player' = s.player
    /\ clients' = s.clients
    /\ current_client_index' = s.current_client_index
    /\ current_client' = s.current_client
    /\ choice_in_progress' = s.choice_in_progress
    /\ choices_frame' = s.choices_frame
    /\ timers' = s.timers
    /\ debate' = s.debate
    /\ intro' = s.intro
    /\ grab' = s.grab
    /\ quit' = s.quit
    /\ ending' = s.ending
    /\ type_speed' = s.type_speed
    /\ inflight' = s.inflight
    /\ budget' = s.budget

EmptyFrame == [kind |-> "empty", cid |-> "", node |-> "", idx |-> 0]
ChoiceButtons(cid, node) == [kind |-> "choices", cid |-> cid, node |-> node, idx |-> 0]
ContinueButton(ref) == [kind |-> "continue", cid |-> ref.cid, node |-> ref.node, idx |-> ref.idx]

Timer(kind, cid, node) == [kind |-> kind, cid |-> cid, node |-> node]

NoDebate == [open |-> FALSE, client |-> "", player_hp |-> 0, client_hp |-> 0, entry |-> "none"]

\* self.after(ms, callback): the callback is pending with its delay
after(s, ms, t) ==
    [s EXCEPT !.timers = Append(@, [kind |-> t.kind, cid |-> t.cid, node |-> t.node, delay |-> ms])]

\* clear_choices: every widget of choices_frame is destroyed
clear_choices(s) == [s EXCEPT !.choices_frame = EmptyFrame]

\* open_debate_modal: the combat window opens with the pools of the client at hand
open_debate_modal(s, entry) ==
    [clear_choices(s) EXCEPT
        !.debate = [open |-> TRUE,
                    client |-> s.current_client.id,
                    player_hp |-> s.player.stats["Composure"] + SANITY_BONUS,
                    client_hp |-> s.current_client.absurdity + s.current_client.resistance,
                    entry |-> entry],
        !.grab = "debate"]

(***************************************************************************)
(* determine_ending: the first matching rule of the ending table.          *)
(***************************************************************************)
\* variant: experience is tested before reputation
determine_ending_xp_first(p) ==
    CASE Get(p.flags, "melted_down", FALSE) \/ p.stats["Composure"] <= 0 -> "Mental Breakdown"
      [] OTHER ->
    CASE Get(p.flags, "heated_arguments", 0) >= 3 -> "The Provocateur"
      [] OTHER ->
    CASE Get(p.flags, "joined_delusions", 0) >= 2 -> "The Convert"
      [] OTHER ->
    CASE Get(p.flags, "life_changing_breakthroughs", 0) >= 2 -> "The Life Changer"
      [] OTHER ->
    CASE Get(p.flags, "big_breakthroughs", 0) >= 4 /\ p.stats["Composure"] >= 5 -> "The Zen Master"
      [] OTHER ->
    CASE p.xp >= 25 -> "The Experienced Professional"
      [] OTHER ->
    CASE p.reputation >= 16 -> "The Celebrity Therapist"
      [] OTHER ->
    CASE p.stats["Patience"] >= 15 -> "The Unbreakable"
      [] OTHER ->
    CASE p.stats["Empathy"] >= 15 -> "The Heart Whisperer"
      [] OTHER ->
    CASE p.stats["Insight"] >= 15 -> "The Mind Reader"
      [] OTHER ->
    CASE p.reputation >= 12 -> "The Reliable Professional"
      [] OTHER ->
    CASE p.stats["Composure"] >= 8 -> "The Steady Hand"
      [] OTHER ->
    CASE p.reputation >= 8 -> "The Decent Therapist"
      [] OTHER ->
    CASE p.reputation <= 5 -> "The Questionable Professional"
      [] OTHER -> "The Quiet Exit"

\* variant: no ending when no rule matches
determine_ending_no_default(p) ==
    CASE Get(p.flags, "melted_down", FALSE) \/ p.stats["Composure"] <= 0 -> "Mental Breakdown"
      [] OTHER ->
    CASE Get(p.flags, "heated_arguments", 0) >= 3 -> "The Provocateur"
      [] OTHER ->
    CASE Get(p.flags, "joined_delusions", 0) >= 2 -> "The Convert"
      [] OTHER ->
    CASE Get(p.flags, "life_changing_breakthroughs", 0) >= 2 -> "The Life Changer"
      [] OTHER ->
    CASE Get(p.flags, "big_breakthroughs", 0) >= 4 /\ p.stats["Composure"] >= 5 -> "The Zen Master"
      [] OTHER ->
    CASE p.reputation >= 16 -> "The Celebrity Therapist"
      [] OTHER ->
    CASE p.xp >= 25 -> "The Experienced Professional"
      [] OTHER ->
    CASE p.stats["Patience"] >= 15 -> "The Unbreakable"
      [] OTHER ->
    CASE p.stats["Empathy"] >= 15 -> "The Heart Whisperer"
      [] OTHER ->
    CASE p.stats["Insight"] >= 15 -> "The Mind Reader"
      [] OTHER ->
    CASE p.reputation >= 12 -> "The Reliable Professional"
      [] OTHER ->
    CASE p.stats["Composure"] >= 8 -> "The Steady Hand"
      [] OTHER ->
    CASE p.reputation >= 8 -> "The Decent Therapist"
      [] OTHER ->
    CASE p.reputation <= 5 -> "The Questionable Professional"
      [] OTHER -> ""

determine_ending(p) ==
    CASE Get(p.flags, "melted_down", FALSE) \/ p.stats["Composure"] <= 0 -> "Mental Breakdown"
      [] OTHER ->
    CASE Get(p.flags, "heated_arguments", 0) >= 3 -> "The Provocateur"
      [] OTHER ->
    CASE Get(p.flags, "joined_delusions", 0) >= 2 -> "The Convert"
      [] OTHER ->
    CASE Get(p.flags, "life_changing_breakthroughs", 0) >= 2 -> "The Life Changer"
      [] OTHER ->
    CASE Get(p.flags, "big_breakthroughs", 0) >= 4 /\ p.stats["Composure"] >= 5 -> "The Zen Master"
      [] OTHER ->
    CASE p.reputation >= 16 -> "The Celebrity Therapist"
      [] OTHER ->
    CASE p.xp >= 25 -> "The Experienced Professional"
      [] OTHER ->
    CASE p.stats["Patience"] >= 15 -> "The Unbreakable"
      [] OTHER ->
    CASE p.stats["Empathy"] >= 15 -> "The Heart Whisperer"
      [] OTHER ->
    CASE p.stats["Insight"] >= 15 -> "The Mind Reader"
      [] OTHER ->
    CASE p.reputation >= 12 -> "The Reliable Professional"
      [] OTHER ->
    CASE p.stats["Composure"] >= 8 -> "The Steady Hand"
      [] OTHER ->
    CASE p.reputation >= 8 -> "The Decent Therapist"
      [] OTHER ->
    CASE p.reputation <= 5 -> "The Questionable Professional"
      [] OTHER -> "The Quiet Exit"

\* show_intro: the character-creation window opens and takes the grab
show_intro(s) == [s EXCEPT !.intro = TRUE, !.grab = "intro"]

\* end_day; again is the answer to "Play again?"
end_day(s, again) ==
    IF s.player = NoPlayer THEN [s EXCEPT !.quit = TRUE]
    ELSE LET e == [s EXCEPT !.ending = determine_ending(s.player)]
         IN IF again THEN show_intro(e) ELSE [e EXCEPT !.quit = TRUE]

(***************************************************************************)
(* Client flow.                                                            *)
(***************************************************************************)
\* delay_ms of display_client_node: the time the typewriter needs at the current speed
delay_ms(s, textLen) == Max(MIN_RENDER_DELAY, textLen * s.type_speed + RENDER_PAD)

\* render_choices(node): clears the frame, then packs the node's buttons unless a choice is in progress
render_choices(s, cid, node) ==
    LET c == clear_choices(s)
    IN IF c.choice_in_progress THEN c
       ELSE [c EXCEPT !.choices_frame = ChoiceButtons(cid, node)]

display_client_node(s, node_key, again) ==
    IF node_key \notin DOMAIN Catalog(s.current_client.id).nodes
    THEN end_day(s, again)
    ELSE after(clear_choices(s),
               delay_ms(s, Catalog(s.current_client.id).nodes[node_key].textLen),
               Timer("render_choices", s.current_client.id, node_key))

\* load_current_client; the list entry at the current index is the object
\* current_client already refers to unless the list or the index has just changed
load_current_client(s, fresh, again) ==
    IF Len(s.clients) = 0 \/ s.current_client_index >= Len(s.clients)
    THEN end_day(s, again)
    ELSE LET c == IF fresh THEN s.clients[s.current_client_index + 1] ELSE s.current_client
             l == [s EXCEPT !.current_client = c]
         IN display_client_node(l, l.current_client.node, again)

\* variant: the stage's difficulty modifier is left out
StageClients_unmodified(stage_data) ==
    LET ids == {stage_data.clients[k] : k \in DOMAIN stage_data.clients}
        picked == SelectSeq(build_clients_data, LAMBDA c : c.id \in ids)
    IN [k \in DOMAIN picked |->
          [id |-> picked[k].id,
           absurdity |-> Max(1, picked[k].absurdity),
           resistance |-> Max(1, picked[k].resistance),
           node |-> "start",
           effects |-> {},
           breakthrough_seen |-> FALSE]]

\* the client instances built by start_game and advance_client for a stage
StageClients(stage_data) ==
    LET ids == {stage_data.clients[k] : k \in DOMAIN stage_data.clients}
        picked == SelectSeq(build_clients_data, LAMBDA c : c.id \in ids)
        modifier == Get(stage_data.location_effects, "difficulty_modifier", 0)
    IN [k \in DOMAIN picked |->
          [id |-> picked[k].id,
           absurdity |-> Max(1, picked[k].absurdity + modifier),
           resistance |-> Max(1, picked[k].resistance + modifier),
           node |-> "start",
           effects |-> {},
           breakthrough_seen |-> FALSE]]

start_game(s, cls) ==
    LET p == [class |-> cls,
              stats |-> [st \in StatNames |-> CLASS_TEMPLATES[cls][st]],
              inventory |-> [it \in ItemNames |-> ITEMS[it].uses],
              xp |-> 0,
              reputation |-> START_REPUTATION,
              current_stage_index |-> 0,
              clients_completed |-> 0,
              flags |-> [big_breakthroughs |-> 0, melted_down |-> FALSE, joined_delusion |-> FALSE]]
        g == [s EXCEPT !.player = p,
                       !.clients = StageClients(THERAPY_STAGES[1]),
                       !.current_client_index = 0]
    IN load_current_client(g, TRUE, FALSE)

\* d[key] = value for a dict that may not have the key yet
SetKey(d, key, value) == [k \in (DOMAIN d) \cup {key} |-> IF k = key THEN value ELSE d[k]]

SetStat(s, name, value) == [s EXCEPT !.player.stats[name] = value]
SetAbsurdity(s, value) == [s EXCEPT !.current_client.absurdity = value]

LocationEffects(s) == THERAPY_STAGES[s.player.current_stage_index + 1].location_effects

\* "Apply location-specific ... bonus": a second reduction when the stage has the bonus
LocationBonus(s, key) ==
    IF Get(LocationEffects(s), key, 0) > 0
    THEN SetAbsurdity(s, Max(0, s.current_client.absurdity - LocationEffects(s)[key]))
    ELSE s

\* variant: the reduction is computed from the stat as it was before the raise
RaiseAndReduce_before(s, stat, threshold, divisor) ==
    LET a == SetStat(s, stat, Min(STAT_MAX, s.player.stats[stat] + 1))
        effectiveness == Max(1, s.player.stats[stat] - threshold)
        total_reduction == 1 + (effectiveness \div divisor)
    IN SetAbsurdity(a, Max(0, a.current_client.absurdity - total_reduction))

\* a stat raised by one, then the absurdity reduction computed from the raised stat
RaiseAndReduce(s, stat, threshold, divisor) ==
    LET a == SetStat(s, stat, Min(STAT_MAX, s.player.stats[stat] + 1))
        effectiveness == Max(1, a.player.stats[stat] - threshold)
        total_reduction == 1 + (effectiveness \div divisor)
    IN SetAbsurdity(a, Max(0, a.current_client.absurdity - total_reduction))

\* variant: the floor is missing
LowerComposure_unfloored(s) == SetStat(s, "Composure", s.player.stats["Composure"] - 1)

LowerComposure(s) == SetStat(s, "Composure", Max(STAT_MIN, s.player.stats["Composure"] - 1))
RaiseComposure(s) == SetStat(s, "Composure", Min(STAT_MAX, s.player.stats["Composure"] + 1))

Empathetic(s, info) ==
    LET b == LocationBonus(RaiseAndReduce(s, "Empathy", 3, 2), "empathy_bonus")
    IN IF info.overwhelming \/ b.current_client.absurdity > 6 THEN LowerComposure(b) ELSE b

Analytical(s) ==
    LET b == LocationBonus(RaiseAndReduce(s, "Insight", 3, 2), "insight_bonus")
    IN IF b.current_client.resistance > 5 THEN LowerComposure(b) ELSE b

Confrontational(s) ==
    LowerComposure(SetStat(s, "Patience", Max(STAT_MIN, s.player.stats["Patience"] - 2)))

Patient(s) ==
    LET b == LocationBonus(RaiseAndReduce(s, "Patience", 3, 2), "patience_bonus")
    IN IF b.player.stats["Patience"] >= 8 THEN RaiseComposure(b) ELSE b

Dismissive(s) ==
    LET b == LocationBonus(RaiseAndReduce(s, "Composure", 4, 3), "composure_bonus")
    IN SetStat(b, "Empathy", Max(STAT_MIN, b.player.stats["Empathy"] - 1))

\* the category rule of on_choose
CategoryRule(s, info) ==
    CASE info.category = "Empathetic"      -> Empathetic(s, info)
      [] info.category = "Analytical"      -> Analytical(s)
      [] info.category = "Confrontational" -> Confrontational(s)
      [] info.category = "Patient"         -> Patient(s)
      [] info.category = "Dismissive"      -> Dismissive(s)
      [] OTHER                             -> s

\* variant: the absurdity is raised without the cap
LowComposureRule_uncapped(s) ==
    IF s.player.stats["Composure"] <= 2
    THEN SetAbsurdity(SetStat(s, "Composure", Max(STAT_MIN, s.player.stats["Composure"] - 1)),
                      s.current_client.absurdity + 1)
    ELSE s

\* "Low Composure: You're barely holding it together"
LowComposureRule(s) ==
    IF s.player.stats["Composure"] <= 2
    THEN SetAbsurdity(SetStat(s, "Composure", Max(STAT_MIN, s.player.stats["Composure"] - 1)),
                      Min(ABSURDITY_CAP, s.current_client.absurdity + 1))
    ELSE s

\* variant: the rule goes by the category of the label
LowPatienceRule_by_category(s, info) ==
    IF s.player.stats["Patience"] <= 2 /\ info.category \in {"Analytical", "Confrontational"}
    THEN [s EXCEPT !.current_client.resistance = Min(RESISTANCE_CAP, @ + 1)]
    ELSE s

\* "Low Patience: Your impatience shows"
LowPatienceRule(s, info) ==
    IF s.player.stats["Patience"] <= 2 /\ info.impatient
    THEN [s EXCEPT !.current_client.resistance = Min(RESISTANCE_CAP, @ + 1)]
    ELSE s

(***************************************************************************)
(* Session completion and progression.                                     *)
(***************************************************************************)
\* variant: the class stat only, without the Composure point
level_up_class_only(s) ==
    LET cls == s.player.class
    IN CASE cls = "Empath"    -> SetStat(s, "Insight", Min(STAT_MAX, s.player.stats["Insight"] + 1))
         [] cls = "Counselor" -> SetStat(s, "Empathy", Min(STAT_MAX, s.player.stats["Empathy"] + 1))
         [] cls = "Burnout"   -> SetStat(s, "Patience", Min(STAT_MAX, s.player.stats["Patience"] + 1))
         [] OTHER             -> s

level_up(s) ==
    LET cls == s.player.class
        a == CASE cls = "Empath"    -> SetStat(s, "Insight", Min(STAT_MAX, s.player.stats["Insight"] + 1))
               [] cls = "Counselor" -> SetStat(s, "Empathy", Min(STAT_MAX, s.player.stats["Empathy"] + 1))
               [] cls = "Burnout"   -> SetStat(s, "Patience", Min(STAT_MAX, s.player.stats["Patience"] + 1))
               [] OTHER             -> s
    IN SetStat(a, "Composure", Min(STAT_MAX, a.player.stats["Composure"] + 1))

AddFlag(s, key) == [s EXCEPT !.player.flags = SetKey(@, key, Get(@, key, 0) + 1)]

\* variant: the tiers are tested one after the other, not as alternatives
complete_session_stacked(s, drop) ==
    LET effects == s.current_client.effects
        absurdity == s.current_client.absurdity
        bonus_xp == (IF "breakthrough" \in effects THEN 3 ELSE 0)
                    + (IF absurdity <= 2 THEN 2 ELSE IF absurdity <= 4 THEN 1 ELSE 0)
        a == IF "breakthrough" \in effects
             THEN AddFlag([s EXCEPT !.player.reputation = @ + 2], "life_changing_breakthroughs")
             ELSE s
        a2 == IF absurdity <= 2
              THEN AddFlag([a EXCEPT !.player.reputation = @ + 1], "big_breakthroughs")
              ELSE a
        b == IF "heated_argument" \in effects
             THEN [AddFlag(a2, "heated_arguments") EXCEPT !.player.reputation = @ - 1]
             ELSE a2
        c == IF "joined_delusion" \in effects THEN AddFlag(b, "joined_delusions") ELSE b
        d == IF absurdity <= 3 THEN RaiseComposure(c) ELSE c
        e == [d EXCEPT !.player.xp = @ + BASE_XP + bonus_xp]
        f == IF drop = "none" THEN e
             ELSE [e EXCEPT !.player.inventory[drop] = @ + 1, !.budget.drops = @ - 1]
    IN IF f.player.xp >= 5 /\ f.player.xp % 5 = 0 THEN level_up(f) ELSE f

\* variant: only the bonus is awarded, without the base reward
complete_session_bonus_only(s, drop) ==
    LET effects == s.current_client.effects
        absurdity == s.current_client.absurdity
        bonus_xp == IF "breakthrough" \in effects THEN 3
                    ELSE IF absurdity <= 2 THEN 2
                    ELSE IF absurdity <= 4 THEN 1 ELSE 0
        a == IF "breakthrough" \in effects
             THEN AddFlag([s EXCEPT !.player.reputation = @ + 2], "life_changing_breakthroughs")
             ELSE IF absurdity <= 2
             THEN AddFlag([s EXCEPT !.player.reputation = @ + 1], "big_breakthroughs")
             ELSE s
        b == IF "heated_argument" \in effects
             THEN [AddFlag(a, "heated_arguments") EXCEPT !.player.reputation = @ - 1]
             ELSE a
        c == IF "joined_delusion" \in effects THEN AddFlag(b, "joined_delusions") ELSE b
        d == IF absurdity <= 3 THEN RaiseComposure(c) ELSE c
        e == [d EXCEPT !.player.xp = @ + bonus_xp]
        f == IF drop = "none" THEN e
             ELSE [e EXCEPT !.player.inventory[drop] = @ + 1, !.budget.drops = @ - 1]
    IN IF f.player.xp >= 5 /\ f.player.xp % 5 = 0 THEN level_up(f) ELSE f

\* complete_session; drop is the outcome of the item roll ("none" or the item found)
complete_session(s, drop) ==
    LET effects == s.current_client.effects
        absurdity == s.current_client.absurdity
        bonus_xp == IF "breakthrough" \in effects THEN 3
                    ELSE IF absurdity <= 2 THEN 2
                    ELSE IF absurdity <= 4 THEN 1 ELSE 0
        a == IF "breakthrough" \in effects
             THEN AddFlag([s EXCEPT !.player.reputation = @ + 2], "life_changing_breakthroughs")
             ELSE IF absurdity <= 2
             THEN AddFlag([s EXCEPT !.player.reputation = @ + 1], "big_breakthroughs")
             ELSE s
        b == IF "heated_argument" \in effects
             THEN [AddFlag(a, "heated_arguments") EXCEPT !.player.reputation = @ - 1]
             ELSE a
        c == IF "joined_delusion" \in effects THEN AddFlag(b, "joined_delusions") ELSE b
        d == IF absurdity <= 3 THEN RaiseComposure(c) ELSE c
        e == [d EXCEPT !.player.xp = @ + BASE_XP + bonus_xp]
        f == IF drop = "none" THEN e
             ELSE [e EXCEPT !.player.inventory[drop] = @ + 1, !.budget.drops = @ - 1]
    IN IF f.player.xp >= 5 /\ f.player.xp % 5 = 0 THEN level_up(f) ELSE f

\* variant: the all_stats bonus is added without the cap
StageBonus_uncapped(s, new_stage_data) ==
    LET bonus == new_stage_data.stage_bonus
        a == IF "all_stats" \in DOMAIN bonus
             THEN [s EXCEPT !.player.stats = [st \in StatNames |-> @[st] + bonus.all_stats]]
             ELSE s
        b == IF "reputation" \in DOMAIN bonus THEN [a EXCEPT !.player.reputation = @ + bonus.reputation] ELSE a
        c == IF "xp" \in DOMAIN bonus THEN [b EXCEPT !.player.xp = @ + bonus.xp] ELSE b
        items == Get(new_stage_data.location_effects, "special_items", <<>>)
        Count(it) == Cardinality({k \in DOMAIN items : items[k] = it})
    IN [c EXCEPT !.player.inventory = [it \in ItemNames |-> @[it] + Count(it)]]

\* the stage-advancement bonuses and the new stage's special items
StageBonus(s, new_stage_data) ==
    LET bonus == new_stage_data.stage_bonus
        a == IF "all_stats" \in DOMAIN bonus
             THEN [s EXCEPT !.player.stats = [st \in StatNames |-> Min(STAT_MAX, @[st] + bonus.all_stats)]]
             ELSE s
        b == IF "reputation" \in DOMAIN bonus THEN [a EXCEPT !.player.reputation = @ + bonus.reputation] ELSE a
        c == IF "xp" \in DOMAIN bonus THEN [b EXCEPT !.player.xp = @ + bonus.xp] ELSE b
        items == Get(new_stage_data.location_effects, "special_items", <<>>)
        Count(it) == Cardinality({k \in DOMAIN items : items[k] = it})
    IN [c EXCEPT !.player.inventory = [it \in ItemNames |-> @[it] + Count(it)]]

\* variant: the next stage opens after the first client of a stage
advance_client_early(s, again) ==
    LET a == [s EXCEPT !.current_client_index = @ + 1, !.player.clients_completed = @ + 1]
        stage == a.player.current_stage_index
    IN IF a.player.clients_completed >= 1 /\ stage < Len(THERAPY_STAGES) - 1
       THEN LET b == [a EXCEPT !.player.current_stage_index = stage + 1,
                               !.player.clients_completed = 0]
                new_stage_data == THERAPY_STAGES[stage + 2]
                c == [StageBonus(b, new_stage_data) EXCEPT
                         !.clients = StageClients(new_stage_data),
                         !.current_client_index = 0]
            IN load_current_client(c, TRUE, again)
       ELSE IF a.current_client_index >= Len(a.clients)
            THEN end_day(a, again)
            ELSE load_current_client(a, TRUE, again)

\* variant: the exhausted roster is tested before the stage
advance_client_roster_first(s, again) ==
    LET a == [s EXCEPT !.current_client_index = @ + 1, !.player.clients_completed = @ + 1]
        stage == a.player.current_stage_index
    IN IF a.current_client_index >= Len(a.clients)
       THEN end_day(a, again)
       ELSE IF a.player.clients_completed >= THERAPY_STAGES[stage + 1].clients_needed
               /\ stage < Len(THERAPY_STAGES) - 1
            THEN LET b == [a EXCEPT !.player.current_stage_index = stage + 1,
                                    !.player.clients_completed = 0]
                     new_stage_data == THERAPY_STAGES[stage + 2]
                     c == [StageBonus(b, new_stage_data) EXCEPT
                              !.clients = StageClients(new_stage_data),
                              !.current_client_index = 0]
                 IN load_current_client(c, TRUE, again)
            ELSE load_current_client(a, TRUE, again)

advance_client(s, again) ==
    LET a == [s EXCEPT !.current_client_index = @ + 1, !.player.clients_completed = @ + 1]
        stage == a.player.current_stage_index
    IN IF a.player.clients_completed >= THERAPY_STAGES[stage + 1].clients_needed
          /\ stage < Len(THERAPY_STAGES) - 1
       THEN LET b == [a EXCEPT !.player.current_stage_index = stage + 1,
                               !.player.clients_completed = 0]
                new_stage_data == THERAPY_STAGES[stage + 2]
                c == [StageBonus(b, new_stage_data) EXCEPT
                         !.clients = StageClients(new_stage_data),
                         !.current_client_index = 0]
            IN load_current_client(c, TRUE, again)
       ELSE IF a.current_client_index >= Len(a.clients)
            THEN end_day(a, again)
            ELSE load_current_client(a, TRUE, again)

\* variant: the next client is met in combat
advance_client_safe_fights(s, again) ==
    LET a == advance_client([s EXCEPT !.choice_in_progress = FALSE, !.inflight = FALSE], again)
    IN IF a.quit \/ a.intro THEN a ELSE open_debate_modal(a, "button")

\* advance_client_safe: the transition of the submitted choice is over
advance_client_safe(s, again) ==
    advance_client([s EXCEPT !.choice_in_progress = FALSE, !.inflight = FALSE], again)

display_client_node_safe(s, node_key, again) ==
    display_client_node([s EXCEPT !.choice_in_progress = FALSE, !.inflight = FALSE], node_key, again)

(***************************************************************************)
(* Combat window.                                                          *)
(***************************************************************************)
\* dwin.destroy(): the window goes, with its grab and its pending callbacks
destroy_dwin(s) ==
    [s EXCEPT !.debate = NoDebate,
              !.grab = IF @ = "debate" THEN "none" ELSE @,
              !.timers = SelectSeq(@, LAMBDA t : t.kind \notin {"after_victory", "after_defeat"})]

after_victory(s, drop, again) ==
    advance_client(complete_session(destroy_dwin(s), drop), again)

after_defeat(s, again) ==
    LET a == destroy_dwin(s)
        b == [a EXCEPT !.current_client.node = "start",
                       !.current_client.absurdity = Max(1, @ + 1)]
    IN load_current_client(b, FALSE, again)

\* variant: an attack does the stat's share of the damage only, without the die
PlayerTurn_without_die(s, action_type, roll, item) ==
    CASE action_type = "empathy" ->
           [s EXCEPT !.debate.client_hp = @ - (s.player.stats["Empathy"] \div 2)]
      [] action_type = "insight" ->
           [s EXCEPT !.debate.client_hp = @ - (s.player.stats["Insight"] \div 2)]
      [] action_type = "patience" ->
           [s EXCEPT !.debate.player_hp = Min(SANITY_CAP, @ + roll + (s.player.stats["Patience"] \div 3)),
                     !.player.flags = SetKey(@, "defended", TRUE)]
      [] action_type = "item" ->
           IF item = "none" THEN s
           ELSE LET a == [s EXCEPT !.player.inventory[item] = @ - 1]
                IN IF item = "Coffee" THEN [a EXCEPT !.debate.player_hp = Min(SANITY_CAP, @ + 3)]
                   ELSE IF item = "Energy Drink" THEN [a EXCEPT !.debate.player_hp = Min(SANITY_CAP, @ + 2)]
                   ELSE a

\* the player's part of a turn; roll is the die, item the item drawn by random.choice
PlayerTurn(s, action_type, roll, item) ==
    CASE action_type = "empathy" ->
           [s EXCEPT !.debate.client_hp = @ - (roll + (s.player.stats["Empathy"] \div 2))]
      [] action_type = "insight" ->
           [s EXCEPT !.debate.client_hp = @ - (roll + (s.player.stats["Insight"] \div 2))]
      [] action_type = "patience" ->
           [s EXCEPT !.debate.player_hp = Min(SANITY_CAP, @ + roll + (s.player.stats["Patience"] \div 3)),
                     !.player.flags = SetKey(@, "defended", TRUE)]
      [] action_type = "item" ->
           IF item = "none" THEN s
           ELSE LET a == [s EXCEPT !.player.inventory[item] = @ - 1]
                IN IF item = "Coffee" THEN [a EXCEPT !.debate.player_hp = Min(SANITY_CAP, @ + 3)]
                   ELSE IF item = "Energy Drink" THEN [a EXCEPT !.debate.player_hp = Min(SANITY_CAP, @ + 2)]
                   ELSE a

\* variant: the defended attack has no minimum
ClientTurn_no_minimum(s, client_dice) ==
    LET raw == client_dice + (s.current_client.absurdity \div 3)
        defended == Get(s.player.flags, "defended", FALSE)
        client_damage == IF defended THEN raw - 2 ELSE raw
        a == IF defended THEN [s EXCEPT !.player.flags = SetKey(@, "defended", FALSE)] ELSE s
    IN [a EXCEPT !.debate.player_hp = Max(0, @ - client_damage)]

\* the client's attack; client_dice is its die
ClientTurn(s, client_dice) ==
    LET raw == client_dice + (s.current_client.absurdity \div 3)
        defended == Get(s.player.flags, "defended", FALSE)
        client_damage == IF defended THEN Max(1, raw - 2) ELSE raw
        a == IF defended THEN [s EXCEPT !.player.flags = SetKey(@, "defended", FALSE)] ELSE s
    IN [a EXCEPT !.debate.player_hp = Max(0, @ - client_damage)]

player_action(s, action_type, roll, item, client_dice) ==
    LET a == PlayerTurn(s, action_type, roll, item)
    IN IF a.debate.client_hp <= 0
       THEN after(SetAbsurdity(SetStat(a, "Empathy", Min(STAT_MAX, a.player.stats["Empathy"] + 1)), 0),
                  COMBAT_DELAY, Timer("after_victory", "", ""))
       ELSE LET b == ClientTurn(a, client_dice)
            IN IF b.debate.player_hp <= 0
               THEN after(LowerComposure(b), COMBAT_DELAY, Timer("after_defeat", "", ""))
               ELSE b

(***************************************************************************)
(* Choices.                                                                *)
(***************************************************************************)
\* the effects dict of the choice, kept on the client for complete_session;
\* hasattr(dict, "effects") is always false, so the stored dict starts empty each time
StoreEffects(s, effects) ==
    [s EXCEPT !.current_client.effects =
                 {k \in DOMAIN effects : k \notin {"absurdity", "start_debate"} /\ effects[k] = TRUE},
              !.current_client.breakthrough_seen = @ \/ Get(effects, "breakthrough", FALSE)]

\* variant: the absurdity effect is added without the floor
continue_after_choice_unfloored(s, ref, drop, again) ==
    LET choice == ChoiceOf(ref)
        effects == choice.effects
        a == IF DOMAIN effects # {} /\ "absurdity" \in DOMAIN effects
             THEN SetAbsurdity(s, s.current_client.absurdity + effects.absurdity)
             ELSE s
    IN IF DOMAIN effects # {} /\ Get(effects, "start_debate", FALSE)
       THEN [open_debate_modal(a, "choice") EXCEPT !.inflight = FALSE]
       ELSE LET b == IF DOMAIN effects # {} THEN StoreEffects(a, effects) ELSE a
            IN IF choice.next = None
               THEN after(complete_session(b, drop), ADVANCE_DELAY, Timer("advance_client_safe", "", ""))
               ELSE display_client_node_safe([b EXCEPT !.current_client.node = choice.next],
                                             choice.next, again)

continue_after_choice(s, ref, drop, again) ==
    LET choice == ChoiceOf(ref)
        effects == choice.effects
        a == IF DOMAIN effects # {} /\ "absurdity" \in DOMAIN effects
             THEN SetAbsurdity(s, Max(0, s.current_client.absurdity + effects.absurdity))
             ELSE s
    IN IF DOMAIN effects # {} /\ Get(effects, "start_debate", FALSE)
       THEN [open_debate_modal(a, "choice") EXCEPT !.inflight = FALSE]
       ELSE LET b == IF DOMAIN effects # {} THEN StoreEffects(a, effects) ELSE a
            IN IF choice.next = None
               THEN after(complete_session(b, drop), ADVANCE_DELAY, Timer("advance_client_safe", "", ""))
               ELSE display_client_node_safe([b EXCEPT !.current_client.node = choice.next],
                                             choice.next, again)

on_choose(s, ref, drop, again) ==
    LET choice == ChoiceOf(ref)
        info == LabelInfo[choice.text]
        a == LowPatienceRule(LowComposureRule(CategoryRule(clear_choices(s), info)), info)
    IN IF choice.reply
       THEN [a EXCEPT !.choices_frame = ContinueButton(ref)]
       ELSE continue_after_choice(a, ref, drop, again)

\* variant: the guard is tested but never set
on_choose_safe_unset(s, ref, drop, again) ==
    IF s.choice_in_progress THEN s
    ELSE on_choose([s EXCEPT !.inflight = TRUE, !.budget.choices = @ - 1], ref, drop, again)

on_choose_safe(s, ref, drop, again) ==
    IF s.choice_in_progress THEN s
    ELSE on_choose([s EXCEPT !.choice_in_progress = TRUE, !.inflight = TRUE,
                             !.budget.choices = @ - 1], ref, drop, again)

on_continue_button_clicked(s, ref, drop, again) ==
    continue_after_choice([s EXCEPT !.choices_frame = EmptyFrame], ref, drop, again)

(***************************************************************************)
(* Items.                                                                  *)
(***************************************************************************)
\* on_speed_change: the slider's value becomes the typewriter speed
on_speed_change(s, v) == [s EXCEPT !.type_speed = v]

\* variant: the restored stat is not capped
apply_item_uncapped(s, item_name) ==
    IF s.current_client = NoClient THEN s
    ELSE IF s.player.inventory[item_name] <= 0 THEN s
    ELSE LET a == clear_choices([s EXCEPT !.player.inventory[item_name] = @ - 1,
                                          !.budget.items = @ - 1])
             stat_to_restore == ITEMS[item_name].stat
             b == SetStat(a, stat_to_restore, a.player.stats[stat_to_restore] + ITEM_RESTORE)
         IN after(b, ITEM_DELAY, Timer("item_render", "", ""))

\* variant: the inventory count is not tested
apply_item_unchecked(s, item_name) ==
    IF s.current_client = NoClient THEN s
    ELSE LET a == clear_choices([s EXCEPT !.player.inventory[item_name] = @ - 1])
             stat_to_restore == ITEMS[item_name].stat
             b == SetStat(a, stat_to_restore, Min(STAT_MAX, a.player.stats[stat_to_restore] + ITEM_RESTORE))
         IN after(b, ITEM_DELAY, Timer("item_render", "", ""))

apply_item(s, item_name) ==
    IF s.current_client = NoClient THEN s
    ELSE IF s.player.inventory[item_name] <= 0 THEN s
    ELSE LET a == clear_choices([s EXCEPT !.player.inventory[item_name] = @ - 1,
                                          !.budget.items = @ - 1])
             stat_to_restore == ITEMS[item_name].stat
             b == SetStat(a, stat_to_restore, Min(STAT_MAX, a.player.stats[stat_to_restore] + ITEM_RESTORE))
         IN after(b, ITEM_DELAY, Timer("item_render", "", ""))

\* variant: the callback shows the first node of the dialogue again
item_render_start(s) ==
    IF s.current_client.node \in DOMAIN Catalog(s.current_client.id).nodes
    THEN render_choices(s, s.current_client.id, "start")
    ELSE s

\* the callback of apply_item: render_choices of the node that is current when it runs;
\* a node id missing from the graph raises KeyError and the callback does nothing
item_render(s) ==
    IF s.current_client.node \in DOMAIN Catalog(s.current_client.id).nodes
    THEN render_choices(s, s.current_client.id, s.current_client.node)
    ELSE s

(***************************************************************************)
(* Pending callbacks.  Tk runs them in the order of their deadlines; a     *)
(* callback scheduled later can run before an earlier one only if its      *)
(* delay is shorter.  The time that passes between two schedulings is not  *)
(* a variable of the model: whenever the delays allow two orders, both are *)
(* taken.                                                                  *)
(***************************************************************************)
CanFire(k) == \A j \in 1..(k - 1) : timers[k].delay < timers[j].delay

Remove(seq, k) == SubSeq(seq, 1, k - 1) \o SubSeq(seq, k + 1, Len(seq))

\* the state in which callback k runs: it is no longer pending
Fired(k) == [State EXCEPT !.timers = Remove(@, k)]

\* the outcomes of the item roll of complete_session
Drops == IF budget.drops > 0 THEN {"none"} \cup ItemNames ELSE {"none"}

\* the pending callbacks of the main window (self.after)
MainTimers(s) == SelectSeq(s.timers, LAMBDA t : t.kind \notin {"after_victory", "after_defeat"})

\* a step the model takes: the handler's result, within the bound on pending callbacks
Step(s) == Len(MainTimers(s)) <= MaxPending /\ Becomes(s)

Turn(s) == Step([s EXCEPT !.budget.turns = @ - 1])

\* random.randint(1, n): the model rolls the two extreme faces only
Die(n) == {1, n}

\* the answers to "Play again?"
Again == IF budget.restarts > 0 THEN BOOLEAN ELSE {FALSE}

\* the positions of the speed slider the model uses: its two ends
Speeds == {SPEED_MIN, SPEED_MAX}

Budget(c, i, d, t, dr, r, sl) ==
    [choices |-> c, items |-> i, debates |-> d, turns |-> t, drops |-> dr, restarts |-> r,
     slides |-> sl]

\* the plans of play explored side by side
Budgets ==
    { Budget(MaxChoices, 0, 0, MaxTurns, MaxDrops, 0, 0),
      Budget(ItemChoices, MaxItemUses, 0, 0, 0, 0, 0),
      Budget(DebateChoices, 0, MaxDebates, MaxTurns, 0, 0, 0),
      Budget(0, 0, MaxDebates, FightTurns, 0, 0, 0),
      Budget(RestartChoices, 0, MaxDebates, MaxTurns, 0, MaxRestarts, 0),
      Budget(SlideChoices, SlideItemUses, 0, 0, 0, 0, MaxSlides) }

MainWindowActive == ~quit /\ grab = "none" /\ player # NoPlayer

Init ==
    /\ player = NoPlayer
    /\ clients = <<>>
    /\ current_client_index = 0
    /\ current_client = NoClient
    /\ choice_in_progress = FALSE
    /\ choices_frame = EmptyFrame
    /\ timers = <<>>
    /\ debate = NoDebate
    /\ intro = TRUE
    /\ grab = "intro"
    /\ quit = FALSE
    /\ ending = ""
    /\ type_speed = TYPE_SPEED_DEFAULT
    /\ inflight = FALSE
    /\ budget \in Budgets

\* "Begin Day" of the character-creation window
StartGame ==
    /\ ~quit /\ intro
    /\ player # NoPlayer => budget.restarts > 0
    /\ \E cls \in ClassNames :
          Step([start_game(State, cls) EXCEPT
                   !.intro = FALSE, !.grab = "none",
                   !.budget.restarts = IF player # NoPlayer THEN @ - 1 ELSE @])

\* a click on one of the choice buttons shown
ClickChoice ==
    /\ MainWindowActive
    /\ choices_frame.kind = "choices"
    /\ budget.choices > 0
    /\ \E idx \in DOMAIN Catalog(choices_frame.cid).nodes[choices_frame.node].choices :
       \E drop \in Drops, again \in Again :
          Step(on_choose_safe(State, [cid |-> choices_frame.cid, node |-> choices_frame.node, idx |-> idx],
                              drop, again))

\* a click on the Continue button
ClickContinue ==
    /\ MainWindowActive
    /\ choices_frame.kind = "continue"
    /\ \E drop \in Drops, again \in Again :
          Step(on_continue_button_clicked(State, choices_frame, drop, again))

\* a click on an item of the inventory panel (or of the Use Item dialog)
UseItem ==
    /\ MainWindowActive
    /\ budget.items > 0
    /\ \E item_name \in ItemNames : Step(apply_item(State, item_name))

\* the "Debate Client" button of the bottom bar
ClickDebate ==
    /\ MainWindowActive
    /\ ~debate.open
    /\ budget.debates > 0
    /\ Step(open_debate_modal([State EXCEPT !.budget.debates = @ - 1], "button"))

\* "End Day Early", confirmed
EndDayEarly ==
    /\ MainWindowActive
    /\ \E again \in Again : Step(end_day(State, again))

\* the speed slider of the bottom bar is moved
OnSpeedChange ==
    /\ MainWindowActive
    /\ budget.slides > 0
    /\ \E v \in Speeds \ {type_speed} :
          Step(on_speed_change([State EXCEPT !.budget.slides = @ - 1], v))

\* one of the four buttons of the combat window
CombatAction ==
    /\ ~quit /\ debate.open /\ grab # "intro"
    /\ budget.turns > 0
    /\ \/ \E action_type \in {"empathy", "insight"}, roll \in Die(ATTACK_DIE), client_dice \in Die(CLIENT_DIE) :
             Turn(player_action(State, action_type, roll, "none", client_dice))
       \/ \E roll \in Die(DEFEND_DIE), client_dice \in Die(CLIENT_DIE) :
             Turn(player_action(State, "patience", roll, "none", client_dice))
       \/ \E client_dice \in Die(CLIENT_DIE) :
          LET available_items == {it \in ItemNames : player.inventory[it] > 0}
          IN \E item \in (IF available_items = {} THEN {"none"} ELSE available_items) :
                Turn(player_action(State, "item", 0, item, client_dice))

FireRenderChoices ==
    /\ ~quit
    /\ \E k \in DOMAIN timers :
          /\ timers[k].kind = "render_choices" /\ CanFire(k)
          /\ Step(render_choices(Fired(k), timers[k].cid, timers[k].node))

FireItemRender ==
    /\ ~quit
    /\ \E k \in DOMAIN timers :
          /\ timers[k].kind = "item_render" /\ CanFire(k)
          /\ Step(item_render(Fired(k)))

FireAdvance ==
    /\ ~quit
    /\ \E k \in DOMAIN timers :
          /\ timers[k].kind = "advance_client_safe" /\ CanFire(k)
          /\ \E again \in Again : Step(advance_client_safe(Fired(k), again))

FireAfterVictory ==
    /\ ~quit
    /\ \E k \in DOMAIN timers :
          /\ timers[k].kind = "after_victory" /\ CanFire(k)
          /\ \E drop \in Drops, again \in Again : Step(after_victory(Fired(k), drop, again))

FireAfterDefeat ==
    /\ ~quit
    /\ \E k \in DOMAIN timers :
          /\ timers[k].kind = "after_defeat" /\ CanFire(k)
          /\ \E again \in Again : Step(after_defeat(Fired(k), again))

Next ==
    \/ StartGame
    \/ ClickChoice
    \/ ClickContinue
    \/ UseItem
    \/ ClickDebate
    \/ EndDayEarly
    \/ OnSpeedChange
    \/ CombatAction
    \/ FireRenderChoices
    \/ FireItemRender
    \/ FireAdvance
    \/ FireAfterVictory
    \/ FireAfterDefeat

Spec == Init /\ [][Next]_vars

(***************************************************************************)
(* Runs from the middle of a game: a client of some stage is in session at *)
(* some node of its dialogue, its choices on display, and the player's     *)
(* stats and the client's absurdity and resistance are at the ends of      *)
(* their ranges, where the clamps of the handlers act.                     *)
(***************************************************************************)
\* <<stage index, index in the stage's roster>>: the first client of the game, clients
\* whose completion opens the next stage, and the last client of the game
MidPositions == { <<0, 0>>, <<1, 1>>, <<2, 1>>, <<3, 1>>, <<4, 0>> }

MidLevels == {STAT_MIN, STAT_MIN + 1, STAT_MAX - 1, STAT_MAX}

MidStats(cls) ==
    { [st \in StatNames |-> CLASS_TEMPLATES[cls][st]] } \cup { [st \in StatNames |-> v] : v \in MidLevels }

\* the client's absurdity: around the thresholds of the reward tiers, as dealt, and at the cap
MidAbsurdity(inst) == (0..5) \cup {inst.absurdity, ABSURDITY_CAP}

MidBudgets ==
    { Budget(MidChoices, 0, 0, 0, 0, MidRestarts, 0),
      Budget(0, MidItemUses, 0, 0, 0, 0, 0),
      Budget(0, 0, MidDebates, MidTurns, MaxDrops, 0, 0) }

MidInit ==
    \E cls \in ClassNames, pos \in MidPositions :
       LET roster == StageClients(THERAPY_STAGES[pos[1] + 1])
           inst == roster[pos[2] + 1]
       IN \E stats \in MidStats(cls), node \in DOMAIN Catalog(inst.id).nodes,
             absurdity \in MidAbsurdity(inst),
             resistance \in {inst.resistance, RESISTANCE_CAP} :
             /\ player = [class |-> cls,
                          stats |-> stats,
                          inventory |-> [it \in ItemNames |-> ITEMS[it].uses],
                          xp |-> 0,
                          reputation |-> START_REPUTATION,
                          current_stage_index |-> pos[1],
                          clients_completed |-> pos[2],
                          flags |-> [big_breakthroughs |-> 0, melted_down |-> FALSE,
                                     joined_delusion |-> FALSE]]
             /\ clients = roster
             /\ current_client_index = pos[2]
             /\ current_client = [inst EXCEPT !.node = node, !.absurdity = absurdity,
                                              !.resistance = resistance]
             /\ choice_in_progress = FALSE
             /\ choices_frame = ChoiceButtons(inst.id, node)
             /\ timers = <<>>
             /\ debate = NoDebate
             /\ intro = FALSE
             /\ grab = "none"
             /\ quit = FALSE
             /\ ending = ""
             /\ type_speed = TYPE_SPEED_DEFAULT
             /\ inflight = FALSE
             /\ budget \in MidBudgets

MidNext ==
    \/ StartGame
    \/ ClickChoice
    \/ ClickContinue
    \/ UseItem
    \/ ClickDebate
    \/ CombatAction
    \/ FireRenderChoices
    \/ FireItemRender
    \/ FireAdvance
    \/ FireAfterVictory
    \/ FireAfterDefeat

SpecMid == MidInit /\ [][MidNext]_vars

(***************************************************************************)
(* The ending resolver on its own: the day is ended early in the first     *)
(* session of a player whose record takes every combination of values     *)
(* around the thresholds of determine_ending.                              *)
(***************************************************************************)
EndingPlayers ==
    { [class |-> "Empath",
       stats |-> [Patience |-> pa, Empathy |-> em, Insight |-> ins, Composure |-> co],
       inventory |-> [it \in ItemNames |-> ITEMS[it].uses],
       xp |-> xp,
       reputation |-> rep,
       current_stage_index |-> 0,
       clients_completed |-> 0,
       flags |-> [big_breakthroughs |-> big, melted_down |-> md, joined_delusion |-> FALSE,
                  heated_arguments |-> ha, joined_delusions |-> jd,
                  life_changing_breakthroughs |-> lc]] :
      pa \in {14, 15}, em \in {14, 15}, ins \in {14, 15}, co \in {4, 5, 6, 8},
      xp \in {24, 25, 30}, rep \in {5, 6, 7, 8, 11, 12, 15, 16},
      big \in {3, 4}, md \in BOOLEAN, ha \in {2, 3}, jd \in {1, 2}, lc \in {1, 2} }

EndingInit ==
    LET roster == StageClients(THERAPY_STAGES[1])
    IN /\ player \in EndingPlayers
       /\ clients = roster
       /\ current_client_index = 0
       /\ current_client = roster[1]
       /\ choice_in_progress = FALSE
       /\ choices_frame = ChoiceButtons(roster[1].id, "start")
       /\ timers = <<>>
       /\ debate = NoDebate
       /\ intro = FALSE
       /\ grab = "none"
       /\ quit = FALSE
       /\ ending = ""
       /\ type_speed = TYPE_SPEED_DEFAULT
       /\ inflight = FALSE
       /\ budget = Budget(0, 0, 0, 0, 0, 0, 0)

EndingNext == EndDayEarly

SpecEnding == EndingInit /\ [][EndingNext]_vars

(***************************************************************************)
(* Runs from a session on the brink: the player's stats are at the floor   *)
(* and the client's absurdity is at the cap, where a lost encounter        *)
(* (after_defeat) and the complications of on_choose meet; an absurdity of *)
(* 2 gives the encounters that are won.                                    *)
(***************************************************************************)
BrinkInit ==
    \E cls \in ClassNames :
       LET roster == StageClients(THERAPY_STAGES[1])
           inst == roster[1]
       IN \E level \in {STAT_MIN, STAT_MIN + 1}, node \in DOMAIN Catalog(inst.id).nodes,
             absurdity \in {2, ABSURDITY_CAP - 1, ABSURDITY_CAP} :
             /\ player = [class |-> cls,
                          stats |-> [st \in StatNames |-> level],
                          inventory |-> [it \in ItemNames |-> ITEMS[it].uses],
                          xp |-> 0,
                          reputation |-> START_REPUTATION,
                          current_stage_index |-> 0,
                          clients_completed |-> 0,
                          flags |-> [big_breakthroughs |-> 0, melted_down |-> FALSE,
                                     joined_delusion |-> FALSE]]
             /\ clients = roster
             /\ current_client_index = 0
             /\ current_client = [inst EXCEPT !.node = node, !.absurdity = absurdity]
             /\ choice_in_progress = FALSE
             /\ choices_frame = ChoiceButtons(inst.id, node)
             /\ timers = <<>>
             /\ debate = NoDebate
             /\ intro = FALSE
             /\ grab = "none"
             /\ quit = FALSE
             /\ ending = ""
             /\ type_speed = TYPE_SPEED_DEFAULT
             /\ inflight = FALSE
             /\ budget \in { Budget(MidChoices, 0, MidDebates, MidTurns, 0, 0, 0),
                             Budget(0, 0, MidDebates + MaxDebates, MidTurns + MaxTurns, 0, 0, 0) }

BrinkNext ==
    \/ ClickChoice
    \/ ClickContinue
    \/ ClickDebate
    \/ CombatAction
    \/ FireRenderChoices
    \/ FireAdvance
    \/ FireAfterVictory
    \/ FireAfterDefeat

SpecBrink == BrinkInit /\ [][BrinkNext]_vars

(***************************************************************************)
(* Properties.                                                             *)
(***************************************************************************)
\* a choice submission was accepted in this step
ChoiceAccepted == budget'.choices # budget.choices

\* C1: after any sequence of operations each of the four player stats is an integer in [1, 15]
C1_StatsInRange ==
    player # NoPlayer => \A st \in StatNames : player.stats[st] \in 1..15

C1_Witness ==
    /\ player # NoPlayer
    /\ player.xp > 0
    /\ \A st \in StatNames : player.stats[st] = 15

\* C2: every client instance has absurdity >= 0 and resistance in [0, 10]
C2_ClientInRange ==
    /\ current_client # NoClient =>
          current_client.absurdity >= 0 /\ current_client.resistance \in 0..10
    /\ \A k \in DOMAIN clients : clients[k].absurdity >= 0 /\ clients[k].resistance \in 0..10

C2_Witness ==
    /\ current_client # NoClient
    /\ current_client.absurdity = 0
    /\ current_client.resistance = 10
    /\ inflight

\* C3: the node id of the active client is always a key of that client's dialogue graph
C3_NodeInGraph ==
    current_client # NoClient => current_client.node \in DOMAIN Catalog(current_client.id).nodes

\* C4: while a submitted choice is in flight no further choice submission is accepted
C4_OneChoiceAtATime == [][inflight => ~ChoiceAccepted]_vars

\* a choice is in flight, the bounds still allow a submission, and the delayed render of an
\* item used meanwhile has run without bringing the choice buttons back
C4_Witness ==
    /\ inflight /\ choice_in_progress /\ ~debate.open
    /\ budget.choices > 0
    /\ \E it \in ItemNames : player.inventory[it] < ITEMS[it].uses
    /\ choices_frame.kind # "choices"
    /\ timers = <<>>

\* C5: when the transition of a submitted choice completes (node advance, advance to the
\* next client, or the end of a combat entered through a start_debate choice) the guard is clear
C5_GuardReleased ==
    [][ /\ (inflight /\ ~inflight' /\ ~debate'.open) => ~choice_in_progress'
        /\ (debate.open /\ debate.entry = "choice" /\ ~debate'.open) => ~choice_in_progress' ]_vars

\* C6: the choices on display are never those of another node or client than the current one
C6_NoStaleChoices ==
    choices_frame.kind = "choices" =>
        /\ choices_frame.cid = current_client.id
        /\ choices_frame.node = current_client.node

\* the combat window opens in this step
CombatEntered == ~debate.open /\ debate'.open
\* the combat window closes in this step
CombatLeft == debate.open /\ ~debate'.open
\* the encounter is decided
Won == debate.open /\ debate.client_hp <= 0
Lost == debate.open /\ debate.player_hp <= 0

CompletedAndAdvanced ==
    /\ player'.xp >= player.xp + BASE_XP
    /\ \/ /\ player'.current_stage_index = player.current_stage_index
          /\ current_client_index' = current_client_index + 1
          /\ player'.clients_completed = player.clients_completed + 1
       \/ /\ player'.current_stage_index = player.current_stage_index + 1
          /\ current_client_index' = 0
          /\ player'.clients_completed = 0

\* C8: the action that brings the client pool to 0 or less is not answered by a client
\* attack, raises Empathy by 1 (cap 15) and sets the client's absurdity to 0; the session of
\* the client fought is then completed once and the controller advances once
C8_VictoryCompletesOnce ==
    [][ /\ (debate.open /\ debate.client_hp > 0 /\ debate'.open /\ debate'.client_hp <= 0) =>
              /\ debate'.player_hp >= debate.player_hp
              /\ player'.stats["Empathy"] = Min(15, player.stats["Empathy"] + 1)
              /\ current_client'.absurdity = 0
        /\ (Won /\ debate'.open) =>
              /\ player'.xp = player.xp
              /\ current_client_index' = current_client_index
        /\ (Won /\ CombatLeft) =>
              /\ current_client.id = debate.client
              /\ CompletedAndAdvanced ]_vars

\* C9: the action that brings the player pool to 0 or less lowers Composure by 1 (floor 1)
\* and nothing else of the player's record; when control returns to dialogue the same client
\* is active at node "start" with absurdity one higher, and xp, reputation, progress and the
\* ending counters are as they were when the player was defeated
C9_DefeatRetries ==
    [][ /\ (debate.open /\ debate.player_hp > 0 /\ debate'.open /\ debate'.player_hp <= 0) =>
              /\ player'.stats = [player.stats EXCEPT !["Composure"] = Max(1, @ - 1)]
              /\ player'.xp = player.xp /\ player'.reputation = player.reputation
              /\ current_client' = current_client
        /\ (Lost /\ debate'.open) =>
              /\ player' = player
              /\ current_client' = current_client
        /\ (Lost /\ CombatLeft) =>
              /\ player' = player
              /\ current_client_index' = current_client_index
              /\ current_client' = [current_client EXCEPT !.node = "start", !.absurdity = @ + 1]
              /\ grab' = "none" ]_vars

\* a terminal choice completes the session of the current client in this step
SessionCompleted ==
    /\ Len(timers') = Len(timers) + 1
    /\ timers'[Len(timers')].kind = "advance_client_safe"

\* a won encounter is closed in this step, the session completed, and the stage stays
VictoryCompleted ==
    /\ Won /\ CombatLeft
    /\ player'.xp # player.xp
    /\ player'.current_stage_index = player.current_stage_index

\* the step gives the player the rewards of completing the session of client c
Rewarded(c) ==
    LET tier == IF c.breakthrough_seen THEN 3
                ELSE IF c.absurdity <= 2 THEN 2
                ELSE IF c.absurdity <= 4 THEN 1 ELSE 0
        leveled == player'.xp >= 5 /\ player'.xp % 5 = 0
        restored == Min(15, player.stats["Composure"] + (IF c.absurdity <= 3 THEN 1 ELSE 0))
        life == Get(player.flags, "life_changing_breakthroughs", 0)
        big == Get(player.flags, "big_breakthroughs", 0)
    IN /\ player'.xp = player.xp + 3 + tier
       /\ player'.reputation = player.reputation + (IF tier = 3 THEN 2 ELSE IF tier = 2 THEN 1 ELSE 0)
       /\ Get(player'.flags, "life_changing_breakthroughs", 0) = life + (IF tier = 3 THEN 1 ELSE 0)
       /\ Get(player'.flags, "big_breakthroughs", 0) = big + (IF tier = 2 THEN 1 ELSE 0)
       /\ player'.stats["Composure"] = Min(15, restored + (IF leveled THEN 1 ELSE 0))

\* C10: a completion awards base 3 XP and exactly one tier: +3 XP, +2 reputation and a
\* life-changing breakthrough if the breakthrough flag was set during the session; otherwise
\* +2 XP, +1 reputation and a big breakthrough if the final absurdity is <= 2; otherwise +1 XP
\* if it is <= 4; otherwise nothing more.  Composure is restored by 1 (cap 15) iff the final
\* absurdity is <= 3, before the Composure point of a level-up the new XP may bring
C10_OneRewardTier ==
    [][ /\ SessionCompleted => Rewarded(current_client')
        /\ VictoryCompleted => Rewarded(current_client) ]_vars

C10_Witness ==
    /\ player # NoPlayer
    /\ Get(player.flags, "life_changing_breakthroughs", 0) = 1
    /\ Get(player.flags, "big_breakthroughs", 0) = 0
    /\ player.xp = 6
    /\ player.reputation = START_REPUTATION + 2
    /\ current_client.absurdity <= 2

\* what the stage bonus adds under key when the step opens the next stage
StageGain(key) ==
    IF player'.current_stage_index # player.current_stage_index
    THEN Get(THERAPY_STAGES[player'.current_stage_index + 1].stage_bonus, key, 0)
    ELSE 0

\* C11: however combat was entered, the completion that follows a victory gives the rewards
\* of a dialogue completion with final absurdity <= 2 and no breakthrough: +5 XP in all,
\* +1 reputation, one more big breakthrough, Composure +1 (before the point of a level-up
\* and the bonus of a stage opened by the same step)
C11_VictoryAsDialogue ==
    [][LET leveled == (player.xp + 5) % 5 = 0
           restored == Min(15, player.stats["Composure"] + 1)
           composure == Min(15, restored + (IF leveled THEN 1 ELSE 0))
       IN (Won /\ CombatLeft /\ player'.xp # player.xp) =>
              /\ player'.xp = player.xp + 5 + StageGain("xp")
              /\ player'.reputation = player.reputation + 1 + StageGain("reputation")
              /\ Get(player'.flags, "big_breakthroughs", 0)
                    = Get(player.flags, "big_breakthroughs", 0) + 1
              /\ Get(player'.flags, "life_changing_breakthroughs", 0)
                    = Get(player.flags, "life_changing_breakthroughs", 0)
              /\ player'.stats["Composure"] = Min(15, composure + StageGain("all_stats"))]_vars

\* C12: when the session of a client completes during which a choice setting
\* heated_argument was selected, the heated_arguments counter goes up by 1 and reputation
\* down by 1.  The choices that set it are those that open a combat, so the completion is
\* the one after the victory in that combat, whose absurdity 0 brings +1 reputation itself
C12_HeatedArgumentCounted ==
    [][LET nodes == Catalog(debate.client).nodes
           heated == \A n \in DOMAIN nodes : \A k \in DOMAIN nodes[n].choices :
                        Get(nodes[n].choices[k].effects, "start_debate", FALSE)
                           => Get(nodes[n].choices[k].effects, "heated_argument", FALSE)
       IN (/\ Won /\ CombatLeft /\ player'.xp # player.xp
           /\ debate.entry = "choice" /\ heated
           /\ current_client.id = debate.client) =>
              /\ Get(player'.flags, "heated_arguments", 0)
                    = Get(player.flags, "heated_arguments", 0) + 1
              /\ player'.reputation = player.reputation + 1 - 1 + StageGain("reputation")]_vars

\* C13: advance_client adds one to the clients completed in the stage; when that reaches
\* the stage's clients_needed and a further stage exists, the same step raises the stage
\* index by 1, resets the counter to 0, adds the new stage's bonus (all_stats to each stat,
\* each capped at 15; reputation; xp), adds 1 to the inventory for each of its special
\* items, and replaces the roster by fresh instances of the new stage's clients
C13_StageTransition ==
    [][FireAdvance =>
          LET stage == player.current_stage_index
              counter == player.clients_completed + 1
          IN IF counter >= THERAPY_STAGES[stage + 1].clients_needed /\ stage + 1 < Len(THERAPY_STAGES)
             THEN LET new == THERAPY_STAGES[stage + 2]
                      items == new.location_effects.special_items
                      modifier == new.location_effects.difficulty_modifier
                  IN /\ player'.current_stage_index = stage + 1
                     /\ player'.clients_completed = 0
                     /\ \A st \in StatNames :
                           player'.stats[st] = Min(15, player.stats[st] + Get(new.stage_bonus, "all_stats", 0))
                     /\ player'.reputation = player.reputation + Get(new.stage_bonus, "reputation", 0)
                     /\ player'.xp = player.xp + Get(new.stage_bonus, "xp", 0)
                     /\ \A it \in ItemNames :
                           player'.inventory[it]
                              = player.inventory[it] + Cardinality({k \in DOMAIN items : items[k] = it})
                     /\ {clients'[k].id : k \in DOMAIN clients'} = {new.clients[k] : k \in DOMAIN new.clients}
                     /\ Len(clients') = Len(new.clients)
                     /\ \A k \in DOMAIN clients' :
                           /\ clients'[k].node = "start" /\ clients'[k].effects = {}
                           /\ clients'[k].absurdity = Max(1, Catalog(clients'[k].id).absurdity + modifier)
                           /\ clients'[k].resistance = Max(1, Catalog(clients'[k].id).resistance + modifier)
                     /\ current_client_index' = 0
                     /\ current_client' = clients'[1]
             ELSE player' = [player EXCEPT !.clients_completed = counter]]_vars

\* the last stage was opened with stats that the bonus would have taken past the cap
C13_Witness ==
    /\ player # NoPlayer
    /\ player.current_stage_index = 4 /\ player.clients_completed = 0
    /\ current_client_index = 0 /\ current_client.id = "parent"
    /\ \A st \in StatNames : player.stats[st] = 15
    /\ player.inventory["Meditation Guide"] = ITEMS["Meditation Guide"].uses + 1
    /\ player.xp >= BASE_XP + 5

C15_EndOfDay ==
    [][((FireAdvance \/ FireAfterVictory) /\ ~intro) =>
          LET last == current_client_index + 1 >= Len(clients)
              final == player.current_stage_index + 1 = Len(THERAPY_STAGES)
          IN /\ (intro' \/ quit') <=> (final /\ last)
             /\ (intro' \/ quit') => ending' = determine_ending(player')
             /\ (last /\ ~final) =>
                   /\ player'.current_stage_index = player.current_stage_index + 1
                   /\ current_client' = clients'[1]
             /\ ~last => current_client' = clients[current_client_index + 2]]_vars

\* the day ended after the only client of the last stage, and the player chose to go on
C15_Witness ==
    /\ player # NoPlayer
    /\ player.current_stage_index = 4 /\ player.clients_completed = 1
    /\ current_client_index = 1
    /\ intro /\ ~quit /\ ending # ""

\* C16: the ending resolver is total: whatever the player's record when the day is ended,
\* it gives exactly one of the fifteen endings, and "The Quiet Exit" when no rule matches
C16_EndingTotal ==
    [][EndDayEarly =>
          LET p == player
              matched ==
                 \/ Get(p.flags, "melted_down", FALSE) \/ p.stats["Composure"] <= 0
                 \/ Get(p.flags, "heated_arguments", 0) >= 3
                 \/ Get(p.flags, "joined_delusions", 0) >= 2
                 \/ Get(p.flags, "life_changing_breakthroughs", 0) >= 2
                 \/ Get(p.flags, "big_breakthroughs", 0) >= 4 /\ p.stats["Composure"] >= 5
                 \/ p.reputation >= 16 \/ p.xp >= 25
                 \/ \E st \in {"Patience", "Empathy", "Insight"} : p.stats[st] >= 15
                 \/ p.reputation >= 12 \/ p.stats["Composure"] >= 8
                 \/ p.reputation >= 8 \/ p.reputation <= 5
          IN /\ ending' \in {"Mental Breakdown", "The Provocateur", "The Convert", "The Life Changer",
                             "The Zen Master", "The Celebrity Therapist",
                             "The Experienced Professional", "The Unbreakable",
                             "The Heart Whisperer", "The Mind Reader", "The Reliable Professional",
                             "The Steady Hand", "The Decent Therapist",
                             "The Questionable Professional", "The Quiet Exit"}
             /\ ~matched <=> ending' = "The Quiet Exit"]_vars

\* the day was ended for a player no rule matches
C16_Witness ==
    /\ quit /\ ending = "The Quiet Exit"
    /\ player.reputation \in {6, 7} /\ player.xp = 24 /\ player.stats["Composure"] = 6

\* C17: the ending is that of the first rule, in the order of the priority list, that the
\* player's record matches; reputation 16 with xp 30 and Composure 6 gives
\* "The Celebrity Therapist", not "The Experienced Professional"
C17_FirstMatchingRule ==
    [][EndDayEarly =>
          LET p == player
              rules ==
                 << <<Get(p.flags, "melted_down", FALSE) \/ p.stats["Composure"] <= 0, "Mental Breakdown">>,
                    <<Get(p.flags, "heated_arguments", 0) >= 3, "The Provocateur">>,
                    <<Get(p.flags, "joined_delusions", 0) >= 2, "The Convert">>,
                    <<Get(p.flags, "life_changing_breakthroughs", 0) >= 2, "The Life Changer">>,
                    <<Get(p.flags, "big_breakthroughs", 0) >= 4 /\ p.stats["Composure"] >= 5,
                      "The Zen Master">>,
                    <<p.reputation >= 16, "The Celebrity Therapist">>,
                    <<p.xp >= 25, "The Experienced Professional">>,
                    <<p.stats["Patience"] >= 15, "The Unbreakable">>,
                    <<p.stats["Empathy"] >= 15, "The Heart Whisperer">>,
                    <<p.stats["Insight"] >= 15, "The Mind Reader">>,
                    <<p.reputation >= 12, "The Reliable Professional">>,
                    <<p.stats["Composure"] >= 8, "The Steady Hand">>,
                    <<p.reputation >= 8, "The Decent Therapist">>,
                    <<p.reputation <= 5, "The Questionable Professional">>,
                    <<TRUE, "The Quiet Exit">> >>
              first == CHOOSE i \in 1..15 : rules[i][1] /\ \A j \in 1..(i - 1) : ~rules[j][1]
          IN ending' = rules[first][2]]_vars

C17_Witness ==
    /\ quit /\ ending = "The Celebrity Therapist"
    /\ player.reputation = 16 /\ player.xp = 30 /\ player.stats["Composure"] = 6
    /\ ~player.flags.melted_down

\* the positions of the choices on display
Shown == DOMAIN Catalog(choices_frame.cid).nodes[choices_frame.node].choices

\* the step is the accepted submission of choice idx of those on display
Chosen(idx) ==
    LET ref == [cid |-> choices_frame.cid, node |-> choices_frame.node, idx |-> idx]
    IN /\ ChoiceAccepted
       /\ IF ChoiceOf(ref).reply THEN choices_frame' = ContinueButton(ref)
                                ELSE choices_frame'.kind # "continue"

C20_FirstBucket ==
    [][(choices_frame.kind = "choices" /\ ChoiceAccepted) =>
          \A idx \in Shown : Chosen(idx) =>
             LET label == ChoiceOf([choices_frame EXCEPT !.idx = idx]).text
                 text == lower(label)
                 words == <<EMPATHETIC_WORDS, ANALYTICAL_WORDS, CONFRONTATIONAL_WORDS,
                            PATIENT_WORDS, DISMISSIVE_WORDS>>
                 hit == {i \in 1..5 : \E w \in words[i] : Contains(text, w)}
                 first == IF hit = {} THEN 0 ELSE CHOOSE i \in hit : \A j \in hit : i <= j
                 c == CASE first = 1 -> Empathetic(State, LabelInfo[label])
                        [] first = 2 -> Analytical(State)
                        [] first = 3 -> Confrontational(State)
                        [] first = 4 -> Patient(State)
                        [] first = 5 -> Dismissive(State)
                        [] OTHER     -> State
                 d == LowComposureRule(c)
             IN /\ player'.stats = d.player.stats
                /\ current_client'.absurdity = d.current_client.absurdity
                /\ first = 0 => /\ c.player.stats = player.stats
                                /\ c.current_client.absurdity = current_client.absurdity]_vars

\* "How does that make you feel" has keywords of two buckets, feel and how: with every stat
\* at 14 the Empathetic effects were applied and the Analytical ones were not
C20_Witness ==
    /\ choices_frame.kind = "continue" /\ inflight
    /\ ChoiceOf(choices_frame).text = "How does that make you feel"
    /\ player.stats = [Patience |-> 14, Empathy |-> 15, Insight |-> 14, Composure |-> 14]

\* C21: a classified choice adjusts the primary stat of its category first (Empathy,
\* Insight, Patience or Composure +1, cap 15), reduces the absurdity by
\* 1 + max(1, stat - 3) \div 2 of the adjusted stat (Dismissive: 1 + max(1, Composure - 4) \div 3)
\* and by the stage's bonus for the category, never below 0; Confrontational lowers Patience
\* by 2 and Composure by 1 (floor 1) and changes no absurdity.  The low-Composure
\* complication follows on what the category left
C21_CategoryDeltas ==
    [][(choices_frame.kind = "choices" /\ ChoiceAccepted) =>
          \A idx \in Shown : Chosen(idx) =>
             LET info == LabelInfo[ChoiceOf([choices_frame EXCEPT !.idx = idx]).text]
                 cat == info.category
                 primary == CASE cat = "Empathetic" -> "Empathy" [] cat = "Analytical" -> "Insight"
                              [] cat = "Patient" -> "Patience" [] OTHER -> "Composure"
                 key == CASE cat = "Empathetic" -> "empathy_bonus" [] cat = "Analytical" -> "insight_bonus"
                          [] cat = "Patient" -> "patience_bonus" [] OTHER -> "composure_bonus"
                 effects == THERAPY_STAGES[player.current_stage_index + 1].location_effects
                 bonus == IF key \in DOMAIN effects THEN effects[key] ELSE 0
                 adjusted == Min(15, player.stats[primary] + 1)
                 reduction == IF cat = "Dismissive" THEN 1 + (Max(1, adjusted - 4) \div 3)
                                                   ELSE 1 + (Max(1, adjusted - 3) \div 2)
                 reduced == Max(0, Max(0, current_client.absurdity - reduction) - bonus)
                 old == player.stats["Composure"]
                 composure ==
                    CASE cat = "Empathetic" ->
                           IF info.overwhelming \/ reduced > 6 THEN Max(1, old - 1) ELSE old
                      [] cat = "Analytical" ->
                           IF current_client.resistance > 5 THEN Max(1, old - 1) ELSE old
                      [] cat = "Patient" -> IF adjusted >= 8 THEN Min(15, old + 1) ELSE old
                      [] cat = "Dismissive" -> adjusted
                      [] cat = "Confrontational" -> Max(1, old - 1)
                      [] OTHER -> old
                 absurdity == IF cat \in {"Empathetic", "Analytical", "Patient", "Dismissive"}
                              THEN reduced ELSE current_client.absurdity
             IN /\ cat \in {"Empathetic", "Analytical", "Patient"} => player'.stats[primary] = adjusted
                /\ cat = "Confrontational" => player'.stats["Patience"] = Max(1, player.stats["Patience"] - 2)
                /\ cat = "Dismissive" => player'.stats["Empathy"] = Max(1, player.stats["Empathy"] - 1)
                /\ player'.stats["Composure"] = IF composure <= 2 THEN Max(1, composure - 1) ELSE composure
                /\ current_client'.absurdity = IF composure <= 2 THEN Min(12, absurdity + 1) ELSE absurdity]_vars

\* a new Empath asked the toaster an Analytical question: Insight 9, absurdity 6 - 4
C21_Witness ==
    /\ choices_frame.kind = "continue" /\ inflight
    /\ LabelInfo[ChoiceOf(choices_frame).text].category = "Analytical"
    /\ player.class = "Empath"
    /\ player.stats = [CLASS_TEMPLATES["Empath"] EXCEPT !["Insight"] = 9]
    /\ CLASS_TEMPLATES["Empath"]["Insight"] = 8
    /\ current_client.id = "toaster" /\ current_client.absurdity = 2 /\ current_client.resistance = 4

\* C22: a step that completes a session levels the player up exactly when the XP right
\* after the session's award is a positive multiple of 5: the class stat (Empath: Insight,
\* Counselor: Empathy, Burnout: Patience) and Composure rise by 1, each capped at 15;
\* otherwise the class stat stays.  The XP of a stage bonus plays no part: a step that
\* only advances adds the stage's all_stats bonus and nothing else
C22_LevelUp ==
    [][LET cls == CASE player.class = "Empath" -> "Insight" [] player.class = "Counselor" -> "Empathy"
                    [] OTHER -> "Patience"
           awarded == player'.xp - StageGain("xp")
           leveled == awarded > 0 /\ awarded % 5 = 0
           point == IF leveled THEN 1 ELSE 0
           won == CombatLeft /\ player'.xp # player.xp
           final == IF won THEN current_client.absurdity ELSE current_client'.absurdity
           restored == Min(15, player.stats["Composure"] + (IF final <= 3 THEN 1 ELSE 0))
           all == StageGain("all_stats")
           Pending(ts) == Cardinality({k \in DOMAIN ts : ts[k].kind = "advance_client_safe"})
       IN /\ (SessionCompleted \/ won) =>
               /\ awarded >= player.xp + 3
               /\ player'.stats[cls] = Min(15, Min(15, player.stats[cls] + point) + all)
               /\ player'.stats["Composure"] = Min(15, Min(15, restored + point) + all)
               /\ \A st \in StatNames \ {cls, "Composure"} :
                     player'.stats[st] = Min(15, player.stats[st] + all)
          /\ Pending(timers') < Pending(timers) =>
               /\ player'.xp = player.xp + StageGain("xp")
               /\ \A st \in StatNames : player'.stats[st] = Min(15, player.stats[st] + all)]_vars

\* an Empath's session brought the XP from 0 to 5: Insight 8 -> 9, Composure 5 -> 7
\* (the restored point and the point of the level-up)
C22_Witness ==
    /\ player # NoPlayer /\ player.class = "Empath" /\ player.xp = 5
    /\ player.stats = [CLASS_TEMPLATES["Empath"] EXCEPT !["Insight"] = 9, !["Composure"] = 7]
    /\ \E k \in DOMAIN timers : timers[k].kind = "advance_client_safe"

\* C23: no step leaves an inventory count below 0, and a successful use of an item in
\* dialogue takes exactly one of that item and raises exactly the stat the item restores
\* by min(2, 15 - stat); the other counts and the other three stats stay
C23_ItemUse ==
    [][/\ player' # NoPlayer => \A it \in ItemNames : player'.inventory[it] >= 0
       /\ (UseItem /\ budget'.items # budget.items) =>
             \E it \in ItemNames :
                /\ player'.inventory = [player.inventory EXCEPT ![it] = @ - 1]
                /\ player'.stats = [player.stats EXCEPT ![ITEMS[it].stat] = @ + Min(2, 15 - @)]]_vars

\* Coffee used with Patience 14: one Coffee left, Patience 15, the other stats still 14
C23_Witness ==
    /\ player # NoPlayer
    /\ player.inventory = [it \in ItemNames |-> IF it = "Coffee" THEN 1 ELSE ITEMS[it].uses]
    /\ player.stats = [st \in StatNames |-> IF st = "Patience" THEN 15 ELSE 14]
    /\ \E k \in DOMAIN timers : timers[k].kind = "item_render"

\* C24: wherever the program is, a use-item request without a current client or for an
\* item whose count is zero returns the state as it was: stats, inventory, the client's
\* absurdity and resistance, the node pointer and the choices on display
C24_RefusedItem ==
    \A it \in ItemNames :
       (current_client = NoClient \/ player.inventory[it] <= 0) => apply_item(State, it) = State

\* a session with its choices on display and none left of some item
C24_Witness ==
    /\ player # NoPlayer /\ current_client # NoClient
    /\ choices_frame.kind = "choices"
    /\ \E it \in ItemNames : player.inventory[it] = 0

\* C25: when Continue leads to a node id that the current client's dialogue graph does not
\* have, the day is not ended and the program not terminated: the controller goes on to
\* the next client or stage
C25_BrokenClientSkipped ==
    [][(ClickContinue /\ choices_frame.kind = "continue" /\
        LET choice == ChoiceOf(choices_frame)
        IN /\ ~Get(choice.effects, "start_debate", FALSE)
           /\ choice.next # None
           /\ choice.next \notin DOMAIN Catalog(current_client.id).nodes)
       => /\ ending' = ending /\ quit' = quit /\ intro' = intro
          /\ \/ current_client_index' = current_client_index + 1
             \/ player'.current_stage_index = player.current_stage_index + 1
             \/ SessionCompleted]_vars

\* C26: a combat action requested when the encounter is already decided (a pool at 0 or
\* below, the window not yet closed) changes no pool, stat, inventory, flag or client
\* state, and schedules no second resolution
C26_DecidedIsFinal ==
    [][((Won \/ Lost) /\ CombatAction) =>
          /\ player' = player /\ current_client' = current_client
          /\ debate' = debate /\ timers' = timers]_vars

\* C27: a step that builds a roster (game start, restart, stage transition) builds the
\* clients of the stage, each at node "start" with absurdity max(1, base + modifier) and
\* resistance max(1, base + modifier), base being the catalog's values and modifier the
\* stage's difficulty_modifier; the client a step brings into session is such an instance
C27_FreshInstances ==
    [][LET stage_data == THERAPY_STAGES[player'.current_stage_index + 1]
           modifier == stage_data.location_effects.difficulty_modifier
           Fresh(c) ==
              \E k \in DOMAIN build_clients_data :
                 /\ build_clients_data[k].id = c.id
                 /\ c.node = "start"
                 /\ c.absurdity = Max(1, build_clients_data[k].absurdity + modifier)
                 /\ c.resistance = Max(1, build_clients_data[k].resistance + modifier)
           built == \/ StartGame
                    \/ clients' # clients
                    \/ player # NoPlayer /\ player'.current_stage_index # player.current_stage_index
           entered == \/ built
                      \/ current_client_index' # current_client_index
       IN /\ built =>
               /\ {clients'[k].id : k \in DOMAIN clients'} =
                     {stage_data.clients[k] : k \in DOMAIN stage_data.clients}
               /\ \A k \in DOMAIN clients' : Fresh(clients'[k])
          /\ (entered /\ current_client_index' < Len(clients')) =>
               /\ current_client'.id = clients'[current_client_index' + 1].id
               /\ Fresh(current_client')]_vars

\* a second game has begun after the day of an earlier game ended:
\* the toaster is at node "start" with the catalog's 6 and 4
C27_Witness ==
    /\ ending # "" /\ ~intro /\ ~quit
    /\ player # NoPlayer /\ player.xp = 0 /\ player.current_stage_index = 0
    /\ current_client # NoClient
    /\ current_client.id = "toaster" /\ current_client.node = "start"
    /\ current_client.absurdity = 6 /\ current_client.resistance = 4

C29_Pools ==
    [][/\ CombatEntered =>
            /\ debate'.player_hp = player'.stats["Composure"] + 5
            /\ debate'.client_hp = current_client'.absurdity + current_client'.resistance
       /\ debate'.open => debate'.player_hp \in 0..20
       /\ (budget'.turns # budget.turns /\ debate'.client_hp > 0) =>
            LET used == {it \in ItemNames : player'.inventory[it] # player.inventory[it]}
                listened == {roll + (player.stats["Patience"] \div 3) : roll \in 1..4}
                heals == IF debate'.client_hp < debate.client_hp THEN {0}
                         ELSE IF "Coffee" \in used THEN {3}
                         ELSE IF "Energy Drink" \in used THEN {2}
                         ELSE IF used # {} THEN {0}
                         ELSE IF "defended" \in DOMAIN player.flags THEN listened \cup {0}
                         ELSE IF "defended" \in DOMAIN player'.flags THEN listened
                         ELSE {0}
            IN \E heal \in heals :
                  \/ debate'.player_hp = 0
                  \/ debate'.player_hp <= Min(20, debate.player_hp + heal) - 1]_vars

\* Composure 15: the pool opened at 20, Patient Listening could not raise it, and the
\* client's attack, which cleared the flag, took something from it
C29_Witness ==
    /\ debate.open /\ player.stats["Composure"] = 15
    /\ debate.player_hp \in 1..19 /\ debate.client_hp > 0
    /\ "defended" \in DOMAIN player.flags /\ ~player.flags["defended"]

C31_CombatItem ==
    [][(budget'.turns # budget.turns /\ player'.inventory # player.inventory) =>
          \E it \in ItemNames :
             LET heal == IF it = "Coffee" THEN 3 ELSE IF it = "Energy Drink" THEN 2 ELSE 0
                 healed == Min(20, debate.player_hp + heal)
             IN /\ player.inventory[it] > 0
                /\ player'.inventory = [player.inventory EXCEPT ![it] = @ - 1]
                /\ debate'.player_hp = 0 \/ debate'.player_hp < healed
                /\ player'.stats = IF debate'.player_hp = 0
                                   THEN [player.stats EXCEPT !["Composure"] = Max(1, @ - 1)]
                                   ELSE player.stats]_vars

\* C32: a step that leaves the client and its node pointer as they are leaves the content
\* of the current node (text length, ordered choices) as it is, and the reading of the
\* current node that follows an item use shows exactly that node's choices, in order
C32_SameNodeSameContent ==
    [][LET InGraph(c) == c # NoClient /\ c.node \in DOMAIN Catalog(c.id).nodes
           Read(c) == Catalog(c.id).nodes[c.node]
           Pending(ts) == Cardinality({k \in DOMAIN ts : ts[k].kind = "item_render"})
       IN /\ (InGraph(current_client) /\ InGraph(current_client')
               /\ current_client'.id = current_client.id
               /\ current_client'.node = current_client.node) =>
                 Read(current_client') = Read(current_client)
          /\ (Pending(timers') < Pending(timers) /\ InGraph(current_client)) =>
               /\ current_client' = current_client
               /\ IF choice_in_progress THEN choices_frame' = EmptyFrame
                  ELSE /\ choices_frame'.kind = "choices"
                       /\ [k \in DOMAIN Read(current_client).choices |->
                              ChoiceOf([choices_frame' EXCEPT !.idx = k])]
                            = Read(current_client).choices]_vars

\* an item was used at a node other than "start" and the node's choices are back on display
C32_Witness ==
    /\ current_client # NoClient /\ current_client.node # "start"
    /\ player # NoPlayer /\ \E it \in ItemNames : player.inventory[it] < ITEMS[it].uses
    /\ choices_frame = ChoiceButtons(current_client.id, current_client.node)
    /\ timers = <<>> /\ budget.items = 0 /\ ~debate.open

\* C33: traversal goes by the choice index alone: the Continue that follows the choice
\* with index idx leads from the current node of the current client to the next of that
\* node's idx-th choice, or completes the session when that choice is terminal, whatever
\* the class, stats, inventory, absurdity and resistance (choices that start combat apart)
C33_TraversalByIndex ==
    [][(choices_frame.kind = "continue" /\ ~debate.open /\ ~debate'.open /\ ClickContinue) =>
          LET nodes == Catalog(current_client.id).nodes
              idx == choices_frame.idx
          IN /\ current_client.node \in DOMAIN nodes
             /\ idx \in DOMAIN nodes[current_client.node].choices
             /\ LET choice == nodes[current_client.node].choices[idx]
                IN IF choice.next = None
                   THEN SessionCompleted /\ current_client'.node = current_client.node
                   ELSE current_client'.id = current_client.id /\ current_client'.node = choice.next]_vars

C36_CompletedOncePlayed ==
    [][LET ByVictory == CombatLeft /\ Won /\ ~Lost /\ player'.xp # player.xp
           ByChoice == SessionCompleted
           AwaitsAdvance ==
               /\ choice_in_progress
               /\ \E k \in DOMAIN timers : timers[k].kind = "advance_client_safe"
       IN /\ ByVictory => /\ current_client.id = debate.client
                          /\ current_client.absurdity = 0
                          /\ ~AwaitsAdvance
          /\ ByChoice => /\ choices_frame.cid = current_client.id
                         /\ choices_frame.node = current_client.node
                         /\ ~AwaitsAdvance]_vars

\* C37: while a reply is displayed and the submitted choice waits for Continue, the
\* Continue button stays until it is clicked: as long as the day goes on, no other event
\* (an item used, a delayed render of choices, a pending display callback) removes or
\* replaces it
C37_ContinueStays ==
    [][(choices_frame.kind = "continue" /\ ~intro' /\ ~quit' /\ choices_frame' # choices_frame)
          => ClickContinue]_vars

\* C38: a restart after the end of a day gives the state of a first start with the class
\* chosen, whatever the earlier game left behind: the stats of the class template, xp 0,
\* reputation 10, stage 0, no client completed, the first client of the first stage at
\* node "start", and the choice-in-progress guard clear, so that the choices of the first
\* node can be rendered and selected
C38_RestartIsFirstStart ==
    [][(player # NoPlayer /\ intro /\ ~intro') =>
          LET first == StageClients(THERAPY_STAGES[1])[1]
          IN /\ player'.stats = [st \in StatNames |-> CLASS_TEMPLATES[player'.class][st]]
             /\ player'.xp = 0
             /\ player'.reputation = START_REPUTATION
             /\ player'.current_stage_index = 0
             /\ player'.clients_completed = 0
             /\ current_client_index' = 0
             /\ current_client'.id = first.id
             /\ current_client'.node = "start"
             /\ current_client'.absurdity = first.absurdity
             /\ current_client'.resistance = first.resistance
             /\ ~choice_in_progress']_vars

\* C39: a combat fought with attacks only terminates: in an encounter that is not yet
\* decided, every attack (Emotional Support or Logical Analysis, at the least and at the
\* greatest roll of either die) leaves the client pool at least 1 lower, and, unless that beats the client, the
\* player pool at least 1 lower and not below 0; so the sum of the two pools falls with
\* every such turn and victory or defeat comes after at most as many turns as the client
\* pool holds points
C39_AttacksTerminate ==
    (debate.open /\ debate.client_hp > 0 /\ debate.player_hp > 0) =>
       \A action_type \in {"empathy", "insight"}, roll \in Die(ATTACK_DIE), client_dice \in Die(CLIENT_DIE) :
          LET after_turn == player_action(State, action_type, roll, "none", client_dice).debate
          IN /\ after_turn.client_hp <= debate.client_hp - 1
             /\ after_turn.client_hp > 0 =>
                   /\ after_turn.player_hp <= debate.player_hp - 1
                   /\ after_turn.player_hp >= 0

\* an encounter in progress in which attacks have lowered both pools, neither to 0, and
\* the player has not healed
C39_Witness ==
    /\ debate.open /\ current_client # NoClient
    /\ debate.client_hp > 0
    /\ debate.client_hp < current_client.absurdity + current_client.resistance
    /\ debate.player_hp > 0
    /\ debate.player_hp < player.stats["Composure"] + SANITY_BONUS
    /\ "defended" \notin DOMAIN player.flags
    /\ \A it \in ItemNames : player.inventory[it] >= ITEMS[it].uses

====
